---- MODULE Spec2Model ----
(***************************************************************************)
(* Multi-account scheduling and request routing of AIstudioProxyAPI.       *)
(*                                                                         *)
(* The repository holds several routers.  Each is modelled by its own      *)
(* group of variables and its own specification:                           *)
(*   SpecReg    config/model_fallback.py (quota and fallback registry)     *)
(*   SpecPPA    multi_account_router.py (process-per-account router)       *)
(*   SpecRR     the same router under round-robin and hash, five requests  *)
(*   SpecProbe  its health loop                                            *)
(*   SpecSmart  multi_instance/smart_request_router.py                     *)
(*   SpecSel    the same router under primary_first, three instances       *)
(*   SpecFile   multi_instance/request_router.py + instance_manager.py     *)
(*   SpecEnh    multi_instance/enhanced/request_router.py (queue)          *)
(*   SpecSup    multi_account_manager.py (supervisor of the workers)       *)
(*   SpecFleet  the instance configurations of the two instance managers   *)
(*   SpecHist   the same router with its request history and stop_instance *)
(*   SpecErr    api_utils/instance_manager.py (error counts of instances)  *)
(*   SpecLock   the locks of config/model_fallback.py, three threads       *)
(* A specification leaves the variables of the other routers unchanged.    *)
(***************************************************************************)
EXTENDS Integers, Sequences, FiniteSets, TLC

VARIABLES
    now,            \* time.time(), in seconds
    model_status,   \* InstanceModelStatus.model_status, per instance id
    instance_statuses, \* keys of ModelFallbackManager.instance_statuses, in insertion order
    regCall,        \* the last registry call: operation, arguments, result, exception
    ppaInst,        \* MultiAccountRouter.instances: id -> BackendInstance
    ppaStrategy,    \* config["router"]["strategy"]
    ppaIndex,       \* RoundRobinStrategy._current_index
    ppaReq,         \* one record per chat_completions call
    ppaHealth,      \* the last answer of GET /health of the account router
    ppaBeat,        \* BackendInstance.last_heartbeat, where the health loop is followed
    smInst,         \* SmartInstanceManager.instances and runtime_states
    smStrategy,     \* SmartRequestRouter.routing_strategy
    smCounter,      \* SmartRequestRouter.round_robin_counter
    smReq,          \* one record per SmartRequestRouter.route_request call
    fInst,          \* MultiInstanceManager.instance_configs and instances
    fReq,           \* RequestRouter.request_history, one RequestContext per call
    enhInst,        \* enhanced InstanceManager.runtime_states
    enhStrategy,    \* enhanced RequestRouter.routing_strategy
    enhCounter,     \* enhanced RequestRouter.round_robin_counter
    enhQueue,       \* enhanced RequestRouter.request_queue
    enhTask,        \* enhanced RequestRouter.queue_processing_task
    enhReq,         \* one RequestContext per enhanced route_request call
    supInst,        \* ProcessManager.instances: id -> AccountInstance
    supMain,        \* main(): the position of start_all in the accounts
    supMon,         \* the monitor thread: its position in _check_health
    supStop,        \* ProcessManager._stop_event
    fleetDir,       \* the auth files of auth_profiles/multi, by e-mail
    fleetCfg,       \* MultiInstanceManager.instance_configs, in insertion order
    fleetRun,       \* keys of MultiInstanceManager.instances (started instances)
    fleetLast,      \* the last call of auto_create_instances: directory, result
    eProfiles,      \* enhanced InstanceManager.auth_profiles (its keys)
    eInstances,     \* enhanced InstanceManager.instances, in insertion order
    eSaved,         \* the instances.json of the enhanced manager
    emStatus,       \* api_utils InstanceManager.instance_statuses: id -> InstanceStatus
    emServer,       \* server.is_multi_instance_mode and len(server.multi_instance_pages)
    emCall,         \* the last call of get_available_instances: what it read, its result
    lkThread,       \* per thread: the lock steps left of its registry call
    lkOwner         \* the thread that holds each threading.Lock of the registry

regVars == <<now, model_status, instance_statuses, regCall>>
ppaVars == <<ppaInst, ppaStrategy, ppaIndex, ppaReq, ppaHealth>>
beatVars == <<ppaBeat>>
smVars == <<smInst, smStrategy, smCounter, smReq>>
fileVars == <<fInst, fReq>>
enhVars == <<enhInst, enhStrategy, enhCounter, enhQueue, enhTask, enhReq>>
supVars == <<supInst, supMain, supMon, supStop>>
fleetVars == <<fleetDir, fleetCfg, fleetRun, fleetLast, eProfiles, eInstances, eSaved>>
errVars == <<emStatus, emServer, emCall>>
lockVars == <<lkThread, lkOwner>>
vars == <<now, model_status, instance_statuses, regCall,
          ppaInst, ppaStrategy, ppaIndex, ppaReq, ppaHealth, ppaBeat,
          smInst, smStrategy, smCounter, smReq,
          fInst, fReq,
          enhInst, enhStrategy, enhCounter, enhQueue, enhTask, enhReq,
          supInst, supMain, supMon, supStop,
          fleetDir, fleetCfg, fleetRun, fleetLast, eProfiles, eInstances, eSaved,
          emStatus, emServer, emCall, lkThread, lkOwner>>

\* what the actions of one component leave alone in the others
xReg == <<beatVars, errVars, lockVars, ppaVars, smVars, fileVars, enhVars, supVars, fleetVars>>
xPPA == <<beatVars, errVars, lockVars, smVars, fileVars, enhVars, supVars, fleetVars>>
xSm == <<beatVars, errVars, lockVars, regVars, ppaVars, fileVars, enhVars, supVars, fleetVars>>
xFile == <<beatVars, errVars, lockVars, ppaVars, smVars, enhVars, supVars, fleetVars>>
xEnh == <<beatVars, errVars, lockVars, model_status, instance_statuses, regCall, ppaVars, smVars, fileVars, supVars, fleetVars>>
xSup == <<beatVars, errVars, lockVars, model_status, instance_statuses, regCall, ppaVars, smVars, fileVars, enhVars, fleetVars>>
xFleet == <<beatVars, errVars, lockVars, regVars, ppaVars, smVars, fileVars, enhVars, supVars>>

None == "None"

----------------------------------------------------------------------------
(* Time.  The clock is read at instants of a grid that holds the instants  *)
(* around every multiple of the cooldown, the boundary instant included.   *)

COOLDOWN == 3600
MaxNow == 7201
ClockSlack == 1

TimePoints == {t \in 1..MaxNow : t % COOLDOWN <= ClockSlack}

Tick ==
    /\ \E t \in TimePoints : t > now /\ now' = t
    /\ UNCHANGED <<model_status, instance_statuses, regCall, xReg>>

----------------------------------------------------------------------------
(* config/model_fallback.py                                                *)

M25Pro == "gemini-2.5-pro-preview-03-25"
M25Flash == "gemini-2.5-flash-preview"
M20Flash == "gemini-2.0-flash-latest"
M15Pro == "gemini-1.5-pro-latest"
M15Flash == "gemini-1.5-flash-latest"

ModelIds == {M25Pro, M25Flash, M20Flash, M15Pro, M15Flash}

MODEL_FALLBACK_MAP ==
    [m \in {M25Pro, M25Flash, M20Flash, M15Pro} |->
        CASE m = M25Pro -> <<M20Flash, M15Pro, M15Flash>>
          [] m = M25Flash -> <<M20Flash, M15Flash, M15Pro>>
          [] m = M20Flash -> <<M15Flash, M15Pro>>
          [] m = M15Pro -> <<M15Flash, M20Flash>>]

\* MODEL_FALLBACK_MAP.get(original_model, [])
FallbackModels(m) ==
    IF m \in DOMAIN MODEL_FALLBACK_MAP THEN MODEL_FALLBACK_MAP[m] ELSE <<>>

InstanceIds == {"1", "2", "3"}

\* ModelStatus(): quota_exceeded_time is <<>> for None and <<t>> for a time.
ModelStatus == [available |-> TRUE, quota_exceeded_time |-> <<>>, error_count |-> 0]

\* Python truthiness of an Optional[float]
Truthy(qt) == qt # <<>> /\ qt[1] # 0

\* InstanceModelStatus.mark_model_quota_exceeded on the model_status dict ms
Marked(ms, m, t) ==
    LET old == IF m \in DOMAIN ms THEN ms[m] ELSE ModelStatus
    IN  (m :> [available |-> FALSE, quota_exceeded_time |-> <<t>>,
               error_count |-> old.error_count + 1]) @@ ms

\* the cooldown test of is_model_available
CooldownOverInclusive(t, qt) == t - qt >= COOLDOWN

CooldownOver(t, qt) == t - qt > COOLDOWN

\* is_model_available that restores a marked model whatever its age
IsModelAvailableEager(ms, m, t) ==
    IF m \notin DOMAIN ms THEN <<TRUE, ms>>
    ELSE <<TRUE, (m :> [ms[m] EXCEPT !.available = TRUE,
                                     !.quota_exceeded_time = <<>>]) @@ ms>>

\* InstanceModelStatus.is_model_available: <<result, model_status afterwards>>
IsModelAvailable(ms, m, t) ==
    IF m \notin DOMAIN ms THEN <<TRUE, ms>>
    ELSE IF ~ms[m].available /\ Truthy(ms[m].quota_exceeded_time)
            /\ CooldownOver(t, ms[m].quota_exceeded_time[1])
         THEN <<TRUE, (m :> [ms[m] EXCEPT !.available = TRUE,
                                          !.quota_exceeded_time = <<>>]) @@ ms>>
         ELSE <<ms[m].available, ms>>

\* the loop of get_fallback_model over fallback_models[i..]
RECURSIVE WalkChain(_, _, _, _)
WalkChain(ms, chain, i, t) ==
    IF i > Len(chain) THEN <<None, ms>>
    ELSE LET r == IsModelAvailable(ms, chain[i], t)
         IN  IF r[1] THEN <<chain[i], r[2]>> ELSE WalkChain(r[2], chain, i + 1, t)

\* ModelFallbackManager.get_fallback_model on one instance's model_status
GetFallbackLast(ms, original_model, t) ==
    LET r == IsModelAvailable(ms, original_model, t)
        chain == FallbackModels(original_model)
    IN  IF r[1] THEN <<original_model, r[2]>>
        ELSE IF chain = <<>> THEN <<None, r[2]>>
        ELSE LET c == IsModelAvailable(r[2], chain[Len(chain)], t)
             IN  IF c[1] THEN <<chain[Len(chain)], c[2]>> ELSE WalkChain(c[2], chain, 1, t)

GetFallbackOrOriginal(ms, original_model, t) ==
    LET r == IsModelAvailable(ms, original_model, t)
        c == WalkChain(r[2], FallbackModels(original_model), 1, t)
    IN  IF r[1] \/ c[1] = None THEN <<original_model, c[2]>> ELSE c

GetFallbackModel(ms, original_model, t) ==
    LET r == IsModelAvailable(ms, original_model, t)
    IN  IF r[1] THEN <<original_model, r[2]>>
        ELSE WalkChain(r[2], FallbackModels(original_model), 1, t)

\* ModelFallbackManager.get_or_create_instance_status
GetOrCreate(order, w) ==
    IF \E i \in 1..Len(order) : order[i] = w THEN order ELSE Append(order, w)

MaxMarks == 3

RECURSIVE SumErrors(_, _)
SumErrors(ms, S) ==
    IF S = {} THEN 0
    ELSE LET m == CHOOSE x \in S : TRUE
         IN  ms[m].error_count + SumErrors(ms, S \ {m})

\* the quota events recorded so far, over all instances
RECURSIVE TotalErrors(_)
TotalErrors(W) ==
    IF W = {} THEN 0
    ELSE LET w == CHOOSE x \in W : TRUE
         IN  SumErrors(model_status[w], DOMAIN model_status[w]) + TotalErrors(W \ {w})

\* ModelFallbackManager.mark_model_quota_exceeded(instance_id, model_id)
MarkModelQuotaExceeded(w, m) ==
    /\ TotalErrors(InstanceIds) < MaxMarks
    /\ instance_statuses' = GetOrCreate(instance_statuses, w)
    /\ model_status' = [model_status EXCEPT ![w] = Marked(@, m, now)]
    /\ regCall' = [op |-> "mark", w |-> w, m |-> m, result |-> None, raised |-> None]
    /\ UNCHANGED <<now, xReg>>

\* a call of InstanceModelStatus.is_model_available(model_id)
CallIsModelAvailable(w, m) ==
    LET r == IsModelAvailable(model_status[w], m, now)
    IN  /\ model_status' = [model_status EXCEPT ![w] = r[2]]
        /\ regCall' = [op |-> "is_available", w |-> w, m |-> m, result |-> r[1],
                       raised |-> None]
        /\ UNCHANGED <<now, instance_statuses, xReg>>

\* a call of ModelFallbackManager.get_fallback_model(instance_id, original_model)
CallGetFallbackModel(w, m) ==
    LET r == GetFallbackModel(model_status[w], m, now)
    IN  /\ instance_statuses' = GetOrCreate(instance_statuses, w)
        /\ model_status' = [model_status EXCEPT ![w] = r[2]]
        /\ regCall' = [op |-> "get_fallback", w |-> w, m |-> m, result |-> r[1],
                       raised |-> None]
        /\ UNCHANGED <<now, xReg>>

\* PageController._check_quota_error_after_submit when detect_quota_error
\* reports an error and server.current_ai_studio_model_id is set: the pair is
\* marked, a fallback is asked for, and an exception leaves the method.
\* HTTPException is not imported by page_controller.py and
\* QuotaExceededException is bound only on the branch that raises it, so
\* the branch without a fallback ends in a NameError / UnboundLocalError.
CheckQuotaErrorAfterSubmit(w, current_model) ==
    LET marked == Marked(model_status[w], current_model, now)
        r == GetFallbackModel(marked, current_model, now)
    IN  /\ TotalErrors(InstanceIds) < MaxMarks
        /\ instance_statuses' = GetOrCreate(instance_statuses, w)
        /\ model_status' = [model_status EXCEPT ![w] = r[2]]
        /\ regCall' = [op |-> "check_quota", w |-> w, m |-> current_model,
                       result |-> r[1],
                       raised |-> IF r[1] # None /\ r[1] # current_model
                                  THEN "QuotaExceededException" ELSE "NameError"]
        /\ UNCHANGED <<now, xReg>>

\* the loop of get_best_available_instance over instance_statuses.items():
\* the ids for which is_model_available answers true, in the order of the
\* dict, and model_status after the calls
RECURSIVE AvailableInstances(_, _, _, _)
AvailableInstances(order, status, m, t) ==
    IF order = <<>> THEN <<<<>>, status>>
    ELSE LET r == IsModelAvailable(status[Head(order)], m, t)
             rest == AvailableInstances(Tail(order),
                                        [status EXCEPT ![Head(order)] = r[2]], m, t)
         IN  <<(IF r[1] THEN <<Head(order)>> ELSE <<>>) \o rest[1], rest[2]>>

\* the candidate workers a caller has in mind, in its order
CandidateOrders == {<<"1", "2">>, <<"2", "1">>}

\* a call of ModelFallbackManager.get_best_available_instance(model_id) by
\* a caller whose candidates are cands: the method takes the model only
CallGetBestAvailableInstance(cands, m) ==
    LET a == AvailableInstances(instance_statuses, model_status, m, now)
    IN  /\ model_status' = a[2]
        /\ regCall' = [op |-> "get_best", w |-> None, m |-> m,
                       result |-> IF a[1] # <<>> THEN a[1][1] ELSE None,
                       raised |-> None, candidates |-> cands]
        /\ UNCHANGED <<now, instance_statuses, xReg>>

NoCall == [op |-> "none", w |-> "1", m |-> M15Flash, result |-> None, raised |-> None]

RegInit ==
    /\ now = 1
    /\ model_status = [w \in InstanceIds |-> <<>>]
    /\ instance_statuses = <<>>
    /\ regCall = NoCall

PPAIdle ==
    /\ ppaInst = <<>>
    /\ ppaStrategy = None
    /\ ppaIndex = 0
    /\ ppaReq = <<>>
    /\ ppaHealth = None
    /\ ppaBeat = <<>>

SmIdle ==
    /\ smInst = <<>>
    /\ smStrategy = None
    /\ smCounter = 0
    /\ smReq = <<>>

FileIdle ==
    /\ fInst = <<>>
    /\ fReq = <<>>

EnhIdle ==
    /\ enhInst = <<>>
    /\ enhStrategy = None
    /\ enhCounter = 0
    /\ enhQueue = <<>>
    /\ enhTask = None
    /\ enhReq = <<>>

SupIdle ==
    /\ supInst = <<>>
    /\ supMain = 0
    /\ supMon = None
    /\ supStop = FALSE

FleetIdle ==
    /\ fleetDir = {}
    /\ fleetCfg = <<>>
    /\ fleetRun = {}
    /\ fleetLast = None
    /\ eProfiles = {}
    /\ eInstances = <<>>
    /\ eSaved = None

ErrIdle ==
    /\ emStatus = <<>>
    /\ emServer = <<>>
    /\ emCall = <<>>

LockIdle ==
    /\ lkThread = <<>>
    /\ lkOwner = <<>>

InitReg ==
    /\ RegInit /\ PPAIdle /\ SmIdle /\ FileIdle /\ EnhIdle /\ SupIdle /\ FleetIdle
    /\ ErrIdle
    /\ LockIdle

\* The registry is driven on one instance, with the models of the fallback
\* map that are closed under it: a model with a chain of two (twice) and a
\* model without a chain.
RegInstances == {"1"}
RegModels == {M20Flash, M15Pro, M15Flash}

NextReg ==
    \/ Tick
    \/ \E w \in RegInstances, m \in RegModels : MarkModelQuotaExceeded(w, m)
    \/ \E w \in RegInstances, m \in RegModels : CallIsModelAvailable(w, m)
    \/ \E w \in RegInstances, m \in RegModels : CallGetFallbackModel(w, m)
    \/ \E w \in RegInstances, m \in RegModels : CheckQuotaErrorAfterSubmit(w, m)
    \/ \E cands \in CandidateOrders, m \in RegModels : CallGetBestAvailableInstance(cands, m)

SpecReg == InitReg /\ [][NextReg]_vars

----------------------------------------------------------------------------
(* multi_account_router.py: the process-per-account router.  Each account  *)
(* is a worker process behind a local port; the worker's page controller   *)
(* keeps the quota registry under the worker's instance id, taken here to  *)
(* be the account id.                                                      *)

\* config["accounts"], in file order
PPAAccounts ==
    <<[id |-> "1", weight |-> 1, enabled |-> TRUE, max_concurrent |-> 1],
      [id |-> "2", weight |-> 2, enabled |-> TRUE, max_concurrent |-> 2],
      [id |-> "3", weight |-> 1, enabled |-> FALSE, max_concurrent |-> 3]>>

PPAOrder == [i \in 1..Len(PPAAccounts) |-> PPAAccounts[i].id]

PPAIds == {PPAOrder[i] : i \in 1..Len(PPAOrder)}

PPAStrategies == {"roundrobin", "weighted", "hash"}

\* the requests: each is one call of chat_completions
NumReqs == 2
Reqs == 1..NumReqs

\* the models the clients ask for: one with a fallback chain, one without
PPAModels == {M20Flash, M15Flash}

\* The clients: the token of the Authorization: Bearer header, the
\* X-API-Key header (None: header absent) and the address the request comes
\* from
ClientBoth == [bearer |-> "sk-a", x_api_key |-> "sk-c", ip |-> "10.0.0.1"]
ClientXKey == [bearer |-> None, x_api_key |-> "sk-c", ip |-> "10.0.0.1"]
ClientBare == [bearer |-> None, x_api_key |-> None, ip |-> "10.0.0.1"]
ClientBareFar == [bearer |-> None, x_api_key |-> None, ip |-> "192.168.0.1"]
Clients == {ClientBoth, ClientXKey, ClientBare, ClientBareFar}
PPAClients == {ClientBoth, ClientXKey, ClientBare}

\* int(md5(s).hexdigest(), 16) % 6 of the strings above; 6 is a multiple of
\* every length the available list can have
Md5Mod6(key) ==
    CASE key = "sk-a" -> 3
      [] key = "sk-c" -> 2
      [] key = "10.0.0.1" -> 0
      [] key = "192.168.0.1" -> 5

\* HashStrategy._get_api_key
GetApiKey(c) ==
    IF c.bearer # None THEN c.bearer
    ELSE IF c.x_api_key # None THEN c.x_api_key
    ELSE None

\* MultiAccountRouter._initialize_instances
BackendInstance(a) ==
    [weight |-> a.weight, enabled |-> a.enabled, max_concurrent |-> a.max_concurrent,
     current_concurrent |-> 0, status |-> "unknown",
     total_requests |-> 0, failed_requests |-> 0]

NewReq == [pc |-> "new", inst |-> None, model |-> None, status |-> 0,
           retry_after |-> None, held |-> 0, blocked |-> FALSE, fallback |-> None,
           ended_by |-> None, available |-> <<>>, client |-> <<>>]

NoAnswer == [status_code |-> 0, status |-> None, healthy |-> 0]

InitPPA ==
    /\ ErrIdle
    /\ LockIdle
    /\ RegInit
    /\ ppaInst = [id \in PPAIds |->
                    BackendInstance(CHOOSE a \in {PPAAccounts[i] : i \in 1..Len(PPAAccounts)} :
                                        a.id = id)]
    /\ ppaStrategy \in PPAStrategies
    /\ ppaIndex = 0
    /\ ppaReq = [r \in Reqs |-> NewReq]
    /\ ppaHealth = NoAnswer
    /\ ppaBeat = <<>>
    /\ SmIdle
    /\ FileIdle
    /\ EnhIdle
    /\ SupIdle
    /\ FleetIdle

\* the filter shared by the three strategies' get_instance
InstanceAvailableNoCap(inst) == inst.enabled /\ inst.status = "healthy"

InstanceAvailable(inst) ==
    inst.enabled /\ inst.status = "healthy" /\ inst.current_concurrent < inst.max_concurrent

RECURSIVE FilterSeq(_, _)
FilterSeq(ids, insts) ==
    IF ids = <<>> THEN <<>>
    ELSE IF InstanceAvailable(insts[Head(ids)])
         THEN <<Head(ids)>> \o FilterSeq(Tail(ids), insts)
         ELSE FilterSeq(Tail(ids), insts)

Available == FilterSeq(PPAOrder, ppaInst)

\* get_instance that takes the head of the list whatever the index
GetInstanceHead(avail, key) == {avail[1]}

\* strategy.get_instance(request): the instances the strategy can return
\* from the non-empty list avail (weighted draws at random: every instance
\* of positive weight can come out; hash without a key asks a new
\* RoundRobinStrategy, whose index is 0)
GetInstance(avail, key) ==
    CASE ppaStrategy = "roundrobin" -> {avail[(ppaIndex % Len(avail)) + 1]}
      [] ppaStrategy = "weighted" ->
            {avail[i] : i \in {j \in 1..Len(avail) : ppaInst[avail[j]].weight >= 1}}
      [] ppaStrategy = "hash" ->
            IF key = None THEN {avail[1]}
            ELSE {avail[(Md5Mod6(key) % Len(avail)) + 1]}

\* the pair (w, m) carries a quota event whose cooldown has not elapsed
InCooldown(w, m) ==
    /\ m \in DOMAIN model_status[w]
    /\ ~model_status[w][m].available
    /\ model_status[w][m].quota_exceeded_time # <<>>
    /\ now - model_status[w][m].quota_exceeded_time[1] < COOLDOWN

\* chat_completions up to the upstream send (lines 274-299): no instance
\* gives HTTPException(503, detail), raised with no headers; else the
\* counters are bumped and the request is forwarded.
\* Requests arrive in the order of their numbers. With `followed` the
\* request keeps the list `available` and, where the strategy reads the
\* request, the client.
Dispatch(r, m, c, followed) ==
    /\ ppaReq[r].pc = "new"
    /\ r > 1 => ppaReq[r - 1].pc # "new"
    /\ UNCHANGED <<xPPA, ppaHealth, regVars, ppaStrategy>>
    /\ IF Available = <<>>
       THEN /\ ppaReq' = [ppaReq EXCEPT ![r] = [@ EXCEPT !.pc = "done", !.model = m,
                                                        !.status = 503,
                                                        !.retry_after = None]]
            /\ UNCHANGED <<ppaInst, ppaIndex>>
       ELSE \E w \in GetInstance(Available, GetApiKey(c)) :
            /\ ppaIndex' = IF ppaStrategy = "roundrobin" THEN ppaIndex + 1 ELSE ppaIndex
            /\ ppaInst' = [ppaInst EXCEPT ![w].current_concurrent = @ + 1,
                                          ![w].total_requests = @ + 1]
            /\ ppaReq' = [ppaReq EXCEPT ![r] = [@ EXCEPT !.pc = "forwarding", !.inst = w,
                                                        !.model = m, !.held = 1,
                                                        !.available = IF followed THEN Available
                                                                      ELSE <<>>,
                                                        !.client =
                                                            IF followed /\ ppaStrategy = "hash"
                                                            THEN <<c>> ELSE <<>>,
                                                        !.blocked = InCooldown(w, m)]]

\* chat_completions where the selection is not followed
Admit(r, m, c) ==
    /\ r \in Reqs
    /\ Dispatch(r, m, c, FALSE)

\* the except clause of chat_completions (lines 330-334)
ExceptClause(insts, w) ==
    [insts EXCEPT ![w].current_concurrent = @ - 1, ![w].failed_requests = @ + 1]

\* session.post raises: connection refused, reset, ..., or, with timed_out,
\* asyncio.TimeoutError when the total time-out of the ClientSession (built
\* at line 287 with the default, 300 s) expires
UpstreamError(r, timed_out) ==
    /\ ppaReq[r].pc = "forwarding"
    /\ ppaInst' = ExceptClause(ppaInst, ppaReq[r].inst)
    /\ ppaReq' = [ppaReq EXCEPT ![r] = [@ EXCEPT !.pc = "done", !.status = 500,
                                                !.held = @ - 1,
                                                !.ended_by = IF timed_out THEN "timeout"
                                                             ELSE None]]
    /\ UNCHANGED <<xPPA, ppaHealth, regVars, ppaStrategy, ppaIndex>>

\* the non-stream branch (lines 321-328) and what follows it in the except
\* clause.  json_ok: resp.json() parses the body.  build_ok: JSONResponse(...)
\* is built (it raises, for one, on a body that holds NaN, which resp.json()
\* accepts and Starlette's JSONResponse refuses).
NonStreamBranch(insts, w, json_ok, build_ok) ==
    IF ~json_ok THEN ExceptClause(insts, w)
    ELSE LET dec == [insts EXCEPT ![w].current_concurrent = @ - 1]
         IN  IF build_ok THEN dec ELSE ExceptClause(dec, w)

ReplyNonStream(r, upstream_status, json_ok, build_ok) ==
    /\ ppaReq[r].pc = "forwarding"
    /\ ppaInst' = NonStreamBranch(ppaInst, ppaReq[r].inst, json_ok, build_ok)
    /\ ppaReq' = [ppaReq EXCEPT ![r] =
            [@ EXCEPT !.pc = "done",
                      !.status = IF json_ok /\ build_ok THEN upstream_status ELSE 500,
                      !.held = IF json_ok /\ ~build_ok THEN @ - 2 ELSE @ - 1]]
    /\ UNCHANGED <<xPPA, ppaHealth, regVars, ppaStrategy, ppaIndex>>

\* the worker's page controller finds a quota error for the model
\* (CheckQuotaErrorAfterSubmit) and the worker answers 429 with a JSON body;
\* the router takes the non-stream branch.
ReplyQuota(r) ==
    LET w == ppaReq[r].inst
        m == ppaReq[r].model
        f == GetFallbackModel(Marked(model_status[w], m, now), m, now)
    IN  /\ ppaReq[r].pc = "forwarding"
        /\ TotalErrors(InstanceIds) < MaxMarks
        /\ instance_statuses' = GetOrCreate(instance_statuses, w)
        /\ model_status' = [model_status EXCEPT ![w] = f[2]]
        /\ ppaInst' = NonStreamBranch(ppaInst, w, TRUE, TRUE)
        /\ ppaReq' = [ppaReq EXCEPT ![r] = [@ EXCEPT !.pc = "done", !.status = 429,
                                                    !.held = @ - 1, !.fallback = f[1]]]
        /\ UNCHANGED <<xPPA, ppaHealth, now, regCall, ppaStrategy, ppaIndex>>

\* the stream branch (lines 304-319): the StreamingResponse is returned with
\* the generator not yet started
ReplyStream(r) ==
    /\ ppaReq[r].pc = "forwarding"
    /\ ppaReq' = [ppaReq EXCEPT ![r] = [@ EXCEPT !.pc = "streaming", !.status = 200]]
    /\ UNCHANGED <<xPPA, ppaHealth, regVars, ppaInst, ppaStrategy, ppaIndex>>

\* stream_generator runs and ends (upstream closes the body, an error, or,
\* with client_closed, the client disconnects after the generator has been
\* started): its finally clause runs
StreamGeneratorEnds(r, client_closed) ==
    /\ ppaReq[r].pc = "streaming"
    /\ ppaInst' = [ppaInst EXCEPT ![ppaReq[r].inst].current_concurrent = @ - 1]
    /\ ppaReq' = [ppaReq EXCEPT ![r] = [@ EXCEPT !.pc = "done", !.held = @ - 1,
                                                !.ended_by = IF client_closed THEN "client" ELSE None]]
    /\ UNCHANGED <<xPPA, ppaHealth, regVars, ppaStrategy, ppaIndex>>

\* the client is gone before the body is iterated: the generator is dropped
\* without having been started, and a generator that never started runs no
\* finally clause
StreamNeverIterated(r) ==
    /\ ppaReq[r].pc = "streaming"
    /\ ppaReq' = [ppaReq EXCEPT ![r] = [@ EXCEPT !.pc = "done", !.ended_by = "client"]]
    /\ UNCHANGED <<xPPA, ppaHealth, regVars, ppaInst, ppaStrategy, ppaIndex>>

\* one probe of _perform_health_check
PerformHealthCheck(id, ok) ==
    /\ ppaInst[id].enabled
    /\ ppaInst' = [ppaInst EXCEPT ![id].status = IF ok THEN "healthy" ELSE "unhealthy"]
    /\ UNCHANGED <<smVars, fileVars, enhVars, supVars, fleetVars, errVars, lockVars,
                   ppaHealth, regVars, ppaStrategy, ppaIndex, ppaReq>>

\* the health check where BackendInstance.last_heartbeat is not followed
Probe(id, ok) == PerformHealthCheck(id, ok) /\ UNCHANGED ppaBeat

\* GET /health (lines 228-242): the handler returns a dict, which FastAPI
\* sends with status 200
HealthyCount == Cardinality({id \in PPAIds : ppaInst[id].status = "healthy"})

HealthCheck ==
    /\ ppaHealth' = [status_code |-> 200,
                     status |-> IF HealthyCount > 0 THEN "healthy" ELSE "unhealthy",
                     healthy |-> HealthyCount]
    /\ ppaHealth' # ppaHealth
    /\ UNCHANGED <<xPPA, regVars, ppaInst, ppaStrategy, ppaIndex, ppaReq>>

NextPPA ==
    \/ Tick
    \/ \E r \in Reqs, m \in PPAModels, c \in PPAClients : Admit(r, m, c)
    \/ \E r \in Reqs, t \in BOOLEAN : UpstreamError(r, t)
    \/ \E r \in Reqs, st \in {200}, j, b \in BOOLEAN : ReplyNonStream(r, st, j, b)
    \/ \E r \in Reqs : ReplyQuota(r)
    \/ \E r \in Reqs : ReplyStream(r)
    \/ \E r \in Reqs, c \in BOOLEAN : StreamGeneratorEnds(r, c)
    \/ \E r \in Reqs : StreamNeverIterated(r)
    \/ \E id \in PPAIds, ok \in BOOLEAN : Probe(id, ok)
    \/ HealthCheck

SpecPPA == InitPPA /\ [][NextPPA]_vars


\* The round-robin or hash router alone, with more requests: two accounts of weight
\* 1 that take one request at a time, and a third that is disabled. It starts
\* when the first round of health checks has found both accounts healthy, and
\* they stay so.
RRAccounts ==
    <<[id |-> "1", weight |-> 1, enabled |-> TRUE, max_concurrent |-> 1],
      [id |-> "2", weight |-> 1, enabled |-> TRUE, max_concurrent |-> 1],
      [id |-> "3", weight |-> 1, enabled |-> FALSE, max_concurrent |-> 1]>>

RRNumReqs == 5
RRReqs == 1..RRNumReqs

\* chat_completions where the selection is followed
AdmitFollowed(r, c) ==
    /\ r \in RRReqs
    /\ Dispatch(r, M20Flash, c, TRUE)

InitRR ==
    /\ ErrIdle
    /\ LockIdle
    /\ RegInit
    /\ ppaInst = [id \in PPAIds |->
                    LET a == CHOOSE a \in {RRAccounts[i] : i \in 1..Len(RRAccounts)} :
                                        a.id = id
                    IN  [BackendInstance(a) EXCEPT
                            !.status = IF a.enabled THEN "healthy" ELSE @]]
    /\ ppaStrategy \in {"roundrobin", "hash"}
    /\ ppaIndex = 0
    /\ ppaReq = [r \in RRReqs |-> NewReq]
    /\ ppaHealth = NoAnswer
    /\ ppaBeat = <<>>
    /\ SmIdle
    /\ FileIdle
    /\ EnhIdle
    /\ SupIdle
    /\ FleetIdle

NextRR ==
    \/ \E r \in RRReqs, c \in Clients : AdmitFollowed(r, c)
    \/ \E r \in RRReqs : ReplyNonStream(r, 200, TRUE, TRUE)

SpecRR == InitRR /\ [][NextRR]_vars

\* MultiAccountRouter.health_check_task alone: the probes of the workers,
\* with the time of the last good answer of each
InitProbe ==
    /\ ErrIdle
    /\ LockIdle
    /\ RegInit
    /\ ppaInst = [id \in PPAIds |->
                    BackendInstance(CHOOSE a \in {PPAAccounts[i] : i \in 1..Len(PPAAccounts)} :
                                        a.id = id)]
    /\ ppaStrategy = None
    /\ ppaIndex = 0
    /\ ppaReq = <<>>
    /\ ppaHealth = NoAnswer
    /\ ppaBeat = [id \in PPAIds |-> <<>>]
    /\ SmIdle
    /\ FileIdle
    /\ EnhIdle
    /\ SupIdle
    /\ FleetIdle

\* _perform_health_check on one worker, last_heartbeat included
HealthCheckTask(id, ok) ==
    /\ PerformHealthCheck(id, ok)
    /\ ppaBeat' = [ppaBeat EXCEPT ![id] = IF ok THEN <<now>> ELSE @]

NextProbe ==
    \/ Tick
    \/ \E id \in PPAIds, ok \in BOOLEAN : HealthCheckTask(id, ok)
    \/ HealthCheck

SpecProbe == InitProbe /\ [][NextProbe]_vars

----------------------------------------------------------------------------
(* multi_instance/smart_request_router.py over smart_instance_manager.py:  *)
(* the in-process router, whose instances are browser pages.               *)

\* instances.json, in file order (ids as _create_default_instance_configs
\* makes them: instance_<n>_<email>)
SmInstances ==
    <<[instance_id |-> "instance_1_a", max_concurrent_requests |-> 1],
      [instance_id |-> "instance_2_b", max_concurrent_requests |-> 2]>>

SmOrder == [i \in 1..Len(SmInstances) |-> SmInstances[i].instance_id]

\* instances.json of a deployment with a third instance
SelInstances ==
    SmInstances \o <<[instance_id |-> "instance_3_c", max_concurrent_requests |-> 1]>>

SelOrder == [i \in 1..Len(SelInstances) |-> SelInstances[i].instance_id]

SelIds == {SelOrder[i] : i \in 1..Len(SelOrder)}

\* the ids of self.instances, a dict, in the order of instances.json
ConfigOrder(insts) == SelectSeq(SelOrder, LAMBDA id : id \in DOMAIN insts)

SmIds == {SmOrder[i] : i \in 1..Len(SmOrder)}

\* 'instance_1' in inst
ContainsInstance1(id) == id \in {"instance_1_a"}

RoutingStrategies == {"primary_first", "least_loaded", "round_robin", "random"}

\* RequestContext.max_retries and SmartRequestRouter.enable_failover
max_retries == 2
enable_failover == TRUE

\* InstanceConfig with status STOPPED and a fresh InstanceRuntime
SmInstance(c) ==
    [status |-> "stopped", max_concurrent_requests |-> c.max_concurrent_requests,
     page |-> FALSE, active_requests |-> 0]

SmNewReq == [pc |-> "new", orig |-> None, instance_id |-> None, retry_count |-> 0,
             status |-> 0, trail |-> <<>>, failures |-> 0]

InitSmart ==
    /\ ErrIdle
    /\ LockIdle
    /\ RegInit
    /\ PPAIdle
    /\ smInst = [id \in SmIds |->
                    SmInstance(CHOOSE c \in {SmInstances[i] : i \in 1..Len(SmInstances)} :
                                   c.instance_id = id)]
    /\ smStrategy \in RoutingStrategies
    /\ smCounter = 0
    /\ smReq = [r \in Reqs |-> SmNewReq]
    /\ FileIdle
    /\ EnhIdle
    /\ SupIdle
    /\ FleetIdle

\* SmartInstanceManager.get_available_instances
RECURSIVE SmFilter(_, _)
SmFilter(ids, insts) ==
    IF ids = <<>> THEN <<>>
    ELSE IF /\ insts[Head(ids)].status = "ready"
            /\ insts[Head(ids)].active_requests < insts[Head(ids)].max_concurrent_requests
         THEN <<Head(ids)>> \o SmFilter(Tail(ids), insts)
         ELSE SmFilter(Tail(ids), insts)

GetAvailableInstances(insts) == SmFilter(ConfigOrder(insts), insts)

\* load a/b < load c/d, the loads being active_requests / max_concurrent_requests
LoadLess(insts, x, y) ==
    insts[x].active_requests * insts[y].max_concurrent_requests
        < insts[y].active_requests * insts[x].max_concurrent_requests

\* _select_least_loaded: the first instance of the list no other one beats
SelectLeastLoaded(insts, av) ==
    LET i == CHOOSE i \in 1..Len(av) :
                /\ \A j \in 1..Len(av) : ~LoadLess(insts, av[j], av[i])
                /\ \A j \in 1..(i - 1) : LoadLess(insts, av[i], av[j])
    IN  av[i]

\* _select_primary_first
SelectPrimaryFirst(av) ==
    LET primary_instances == SelectSeq(av, ContainsInstance1)
    IN  IF primary_instances # <<>> THEN primary_instances[1] ELSE av[1]

\* _select_instance: the ids it can return (None when nothing is available;
\* random.choice can return any available instance)
SelectInstance(insts) ==
    LET av == GetAvailableInstances(insts)
    IN  IF av = <<>> THEN {None}
        ELSE CASE smStrategy = "primary_first" -> {SelectPrimaryFirst(av)}
               [] smStrategy = "least_loaded" -> {SelectLeastLoaded(insts, av)}
               [] smStrategy = "round_robin" -> {av[(smCounter % Len(av)) + 1]}
               [] smStrategy = "random" -> {av[i] : i \in 1..Len(av)}

\* the counter after one call of _select_instance on insts
CounterAfterSelect(insts) ==
    IF smStrategy = "round_robin" /\ GetAvailableInstances(insts) # <<>>
    THEN smCounter + 1 ELSE smCounter

\* _acquire_instance_lock: <<acquired, instances after>>
AcquireInstanceLock(insts, id) ==
    IF insts[id].active_requests < insts[id].max_concurrent_requests
    THEN <<TRUE, [insts EXCEPT ![id].active_requests = @ + 1]>>
    ELSE <<FALSE, insts>>

\* _release_instance_lock
ReleaseInstanceLock(insts, id) ==
    IF insts[id].active_requests > 0
    THEN [insts EXCEPT ![id].active_requests = @ - 1]
    ELSE insts

\* the retry test of _process_request_on_instance (line 270)
MayFailoverOnceMore(retry_count) == enable_failover /\ retry_count <= max_retries

MayFailover(retry_count) == enable_failover /\ retry_count < max_retries

\* route_request up to the first await of the page work (lines 69-117):
\* select, take the lock, enter _process_request_on_instance.  No await
\* suspends in between.
RouteRequest(r) ==
    /\ smReq[r].pc = "new"
    /\ r > 1 => smReq[r - 1].pc # "new"
    /\ smCounter' = CounterAfterSelect(smInst)
    /\ UNCHANGED <<xSm, smStrategy>>
    /\ \E id \in SelectInstance(smInst) :
        IF id = None
        THEN /\ smReq' = [smReq EXCEPT ![r] = [@ EXCEPT !.pc = "done", !.status = 503]]
             /\ UNCHANGED smInst
        ELSE LET a == AcquireInstanceLock(smInst, id)
             IN  IF ~a[1]
                 THEN /\ smReq' = [smReq EXCEPT ![r] =
                            [@ EXCEPT !.pc = "done", !.status = 503, !.instance_id = id]]
                      /\ UNCHANGED smInst
                 ELSE IF ~smInst[id].page
                 THEN /\ smReq' = [smReq EXCEPT ![r] =
                            [@ EXCEPT !.pc = "done", !.status = 500, !.orig = id,
                                      !.instance_id = id]]
                      /\ smInst' = ReleaseInstanceLock(a[2], id)
                 ELSE /\ smReq' = [smReq EXCEPT ![r] =
                            [@ EXCEPT !.pc = "executing", !.orig = id, !.instance_id = id,
                                      !.trail = <<id>>]]
                      /\ smInst' = a[2]

\* _execute_chat_completion_on_page returns: every frame returns and the
\* finally clause of route_request releases the instance it selected
ExecuteSucceeds(r) ==
    /\ smReq[r].pc = "executing"
    /\ smInst' = ReleaseInstanceLock(smInst, smReq[r].orig)
    /\ smReq' = [smReq EXCEPT ![r] = [@ EXCEPT !.pc = "done", !.status = 200]]
    /\ UNCHANGED <<xSm, smStrategy, smCounter>>

\* the exception leaves _process_request_on_instance: the finally clause of
\* route_request releases the instance it selected and the client gets 500
Raised(r, insts, retry_count, instance_id) ==
    /\ smInst' = ReleaseInstanceLock(insts, smReq[r].orig)
    /\ smReq' = [smReq EXCEPT ![r] =
            [@ EXCEPT !.pc = "done", !.status = 500, !.retry_count = retry_count,
                      !.instance_id = instance_id, !.failures = @ + 1]]

\* _execute_chat_completion_on_page raises (lines 265-285)
ExecuteFails(r) ==
    LET cur == smReq[r].instance_id
        released == ReleaseInstanceLock(smInst, cur)
    IN  /\ smReq[r].pc = "executing"
        /\ UNCHANGED <<xSm, smStrategy>>
        /\ IF ~MayFailover(smReq[r].retry_count)
           THEN /\ Raised(r, smInst, smReq[r].retry_count, cur)
                /\ UNCHANGED smCounter
           ELSE /\ smCounter' = CounterAfterSelect(released)
                /\ \E new \in SelectInstance(released) :
                    IF new = None \/ new = cur
                    THEN Raised(r, released, smReq[r].retry_count + 1, cur)
                    ELSE LET a == AcquireInstanceLock(released, new)
                         IN  IF ~a[1] \/ ~released[new].page
                             THEN Raised(r, a[2], smReq[r].retry_count + 1, new)
                             ELSE /\ smInst' = a[2]
                                  /\ smReq' = [smReq EXCEPT ![r] =
                                        [@ EXCEPT !.retry_count = @ + 1, !.instance_id = new,
                                                  !.trail = Append(@, new),
                                                  !.failures = @ + 1]]

\* start_instance: the page comes up, or the start is simulated (READY with
\* no page, lines 310-322), or it fails (ERROR and a fresh runtime)
StartInstance(id, outcome) ==
    /\ smInst' = [smInst EXCEPT ![id] =
            CASE outcome = "page" -> [@ EXCEPT !.status = "ready", !.page = TRUE]
              [] outcome = "simulated" -> [@ EXCEPT !.status = "ready", !.page = FALSE]
              [] outcome = "failed" -> [@ EXCEPT !.status = "error", !.page = FALSE,
                                                 !.active_requests = 0]]
    /\ UNCHANGED <<xSm, smStrategy, smCounter, smReq>>

\* stop_instance: STOPPED and a fresh runtime
StopInstance(id) ==
    /\ smInst' = [smInst EXCEPT ![id] =
            [@ EXCEPT !.status = "stopped", !.page = FALSE, !.active_requests = 0]]
    /\ UNCHANGED <<xSm, smStrategy, smCounter, smReq>>

NextSmart ==
    \/ \E r \in Reqs : RouteRequest(r)
    \/ \E r \in Reqs : ExecuteSucceeds(r)
    \/ \E r \in Reqs : ExecuteFails(r)
    \/ \E id \in SmIds, outcome \in {"page", "simulated", "failed"} : StartInstance(id, outcome)
    \/ \E id \in SmIds : StopInstance(id)

SpecSmart == InitSmart /\ [][NextSmart]_vars

\* The in-process router of the deployment with three instances, under
\* primary_first, where every start brings a page up and no request fails
InitSel ==
    /\ ErrIdle
    /\ LockIdle
    /\ RegInit
    /\ PPAIdle
    /\ smInst = [id \in SelIds |->
                    SmInstance(CHOOSE c \in {SelInstances[i] : i \in 1..Len(SelInstances)} :
                                   c.instance_id = id)]
    /\ smStrategy = "primary_first"
    /\ smCounter = 0
    /\ smReq = [r \in Reqs |-> SmNewReq]
    /\ FileIdle
    /\ EnhIdle
    /\ SupIdle
    /\ FleetIdle

NextSel ==
    \/ \E r \in Reqs : RouteRequest(r)
    \/ \E r \in Reqs : ExecuteSucceeds(r)
    \/ \E id \in SelIds : StartInstance(id, "page")
    \/ \E id \in SelIds : StopInstance(id)

SpecSel == InitSel /\ [][NextSel]_vars

----------------------------------------------------------------------------
(* multi_instance/request_router.py over instance_manager.py and           *)
(* model_manager.py: the router of the instances.json deployment.  The     *)
(* quota registry is the process-wide model_fallback_manager.              *)

\* instances.json, in file order
FileOrder == <<"1", "2">>
FileIds == {FileOrder[i] : i \in 1..Len(FileOrder)}
FileMaxConcurrent == [id \in FileIds |-> IF id = "1" THEN 1 ELSE 2]

\* ModelManager: every model asked for is a global model and enabled; the
\* lists of the instances
instance_blacklists == [id \in FileIds |-> IF id = "2" THEN {M15Flash} ELSE {}]
instance_whitelists == [id \in FileIds |-> IF id = "2" THEN {M20Flash, M15Flash} ELSE {}]

\* ModelManager.is_model_available_for_instance
IsModelAvailableForInstance(id, m) ==
    /\ m \notin instance_blacklists[id]
    /\ instance_whitelists[id] # {} => m \in instance_whitelists[id]

\* an instance that is configured and not started
FileStopped(id) ==
    [running |-> FALSE, enabled |-> TRUE, status |-> "stopped",
     max_concurrent_requests |-> FileMaxConcurrent[id], active_requests |-> 0,
     locked |-> FALSE]

FileNewReq == [pc |-> "new", instance_id |-> None, model_id |-> None]

InitFile ==
    /\ ErrIdle
    /\ LockIdle
    /\ RegInit
    /\ PPAIdle
    /\ SmIdle
    /\ fInst = [id \in FileIds |-> FileStopped(id)]
    /\ fReq = [r \in Reqs |-> FileNewReq]
    /\ EnhIdle
    /\ SupIdle
    /\ FleetIdle

\* MultiInstanceManager.get_available_instances followed by the model
\* filter of route_request (lines 229-248)
RECURSIVE FileFilter(_, _)
FileFilter(ids, m) ==
    IF ids = <<>> THEN <<>>
    ELSE IF /\ fInst[Head(ids)].running
            /\ fInst[Head(ids)].status = "ready"
            /\ fInst[Head(ids)].active_requests < fInst[Head(ids)].max_concurrent_requests
            /\ IsModelAvailableForInstance(Head(ids), m)
         THEN <<Head(ids)>> \o FileFilter(Tail(ids), m)
         ELSE FileFilter(Tail(ids), m)

\* _try_route_to_instance with acquire_instance_lock, as far as they test
TryRouteToInstance(id, m) ==
    /\ fInst[id].running
    /\ fInst[id].status = "ready"
    /\ IsModelAvailableForInstance(id, m)
    /\ fInst[id].active_requests < fInst[id].max_concurrent_requests

\* the instances route_request tries, in order: the preferred one, the
\* selected one, then the others of the filtered list (failover)
TryOrder(preferred, selected, filtered) ==
    (IF preferred = None THEN <<>> ELSE <<preferred>>)
    \o (IF selected = None THEN <<>>
        ELSE <<selected>> \o SelectSeq(filtered, LAMBDA id : id # selected))

\* the first instance of the order that takes the request, or None
FirstRouted(order, m) ==
    IF \E i \in 1..Len(order) : TryRouteToInstance(order[i], m)
    THEN order[CHOOSE i \in 1..Len(order) :
                    /\ TryRouteToInstance(order[i], m)
                    /\ \A j \in 1..(i - 1) : ~TryRouteToInstance(order[j], m)]
    ELSE None

\* acquire_instance_lock once its tests have passed (lines 482-489)
AcquireLock(insts, id) ==
    [insts EXCEPT ![id].active_requests = @ + 1, ![id].status = "busy",
                  ![id].locked = TRUE]

\* release_instance_lock (lines 494-514)
ReleaseLock(insts, id) ==
    IF ~insts[id].running THEN insts
    ELSE [insts EXCEPT ![id].active_requests = IF @ > 0 THEN @ - 1 ELSE 0,
                       ![id].status = IF insts[id].active_requests <= 1
                                      THEN "ready" ELSE @,
                       ![id].locked = FALSE]

\* route_request called with strategy RANDOM (any instance of the filtered
\* list can be the selected one) and with or without a preferred instance.
\* Nothing suspends unless the asyncio lock of the instance is held.
FileRouteRequest(r, m, preferred) ==
    LET filtered == FileFilter(FileOrder, m)
    IN  /\ fReq[r].pc = "new"
        /\ r > 1 => fReq[r - 1].pc # "new"
        /\ UNCHANGED <<regVars, xFile>>
        /\ \E selected \in IF filtered = <<>> THEN {None}
                           ELSE {filtered[i] : i \in 1..Len(filtered)} :
            LET target == FirstRouted(TryOrder(preferred, selected, filtered), m)
            IN  IF target = None
                THEN /\ fReq' = [fReq EXCEPT ![r] = [@ EXCEPT !.pc = "done", !.model_id = m]]
                     /\ UNCHANGED fInst
                ELSE IF fInst[target].locked
                THEN /\ fReq' = [fReq EXCEPT ![r] = [@ EXCEPT !.pc = "lockwait",
                                                             !.model_id = m]]
                     /\ UNCHANGED fInst
                ELSE /\ fReq' = [fReq EXCEPT ![r] =
                            [@ EXCEPT !.pc = "routed", !.model_id = m,
                                      !.instance_id = target]]
                     /\ fInst' = AcquireLock(fInst, target)

\* complete_request (lines 308-338)
CompleteRequest(r) ==
    /\ fReq[r].pc = "routed"
    /\ fInst' = ReleaseLock(fInst, fReq[r].instance_id)
    /\ fReq' = [fReq EXCEPT ![r] = [@ EXCEPT !.pc = "done"]]
    /\ UNCHANGED <<regVars, xFile>>

\* start_instance of an instance that is not running: refused when the
\* configuration is disabled; READY, or ERROR when the page set-up raises,
\* or STARTING for a partial start
FileStartInstance(id, outcome) ==
    /\ ~fInst[id].running
    /\ fInst[id].enabled
    /\ fInst' = [fInst EXCEPT ![id] = [@ EXCEPT !.running = TRUE, !.status = outcome,
                                               !.active_requests = 0, !.locked = FALSE]]
    /\ UNCHANGED <<regVars, xFile, fReq>>

\* stop_instance, which takes the lock of the instance first
FileStopInstance(id) ==
    /\ fInst[id].running
    /\ ~fInst[id].locked
    /\ fInst' = [fInst EXCEPT ![id] = [@ EXCEPT !.running = FALSE, !.status = "stopped",
                                               !.active_requests = 0]]
    /\ UNCHANGED <<regVars, xFile, fReq>>

\* update_instance_config(instance_id, enabled=...)
UpdateInstanceConfig(id, enabled) ==
    /\ fInst[id].enabled # enabled
    /\ fInst' = [fInst EXCEPT ![id].enabled = enabled]
    /\ UNCHANGED <<regVars, xFile, fReq>>

NextFile ==
    \/ Tick
    \/ \E w \in RegInstances, m \in {M20Flash} : MarkModelQuotaExceeded(w, m)
    \/ \E r \in Reqs, m \in PPAModels, preferred \in FileIds \cup {None} :
            FileRouteRequest(r, m, preferred)
    \/ \E r \in Reqs : CompleteRequest(r)
    \/ \E id \in FileIds, outcome \in {"ready", "error", "starting"} :
            FileStartInstance(id, outcome)
    \/ \E id \in FileIds : FileStopInstance(id)
    \/ \E id \in FileIds, enabled \in BOOLEAN : UpdateInstanceConfig(id, enabled)

SpecFile == InitFile /\ [][NextFile]_vars

----------------------------------------------------------------------------
(* The same router with its request history, repeated completions, the     *)
(* clean-up of expired requests, and stop_instance waiting for the lock of *)
(* the instance.                                                           *)

HistNumReqs == 3
HistReqs == 1..HistNumReqs

\* complete_request trims the history when it holds more than 1000
\* records, by the 100 oldest; here more than HistoryMax, by TrimCount
HistoryMax == 1
TrimCount == 1

\* RequestRouter.request_timeout
file_request_timeout == 300

\* the calls of complete_request followed for one request id
MaxCompletions == 2

\* InstanceState with its asyncio lock: stop is "waiting" while
\* stop_instance waits for the lock, "woken" from the release that hands
\* the lock to it until it runs; waiters are the requests suspended in
\* lock.acquire() behind it
HistStopped(id) ==
    [running |-> FALSE, enabled |-> TRUE, status |-> "stopped",
     max_concurrent_requests |-> FileMaxConcurrent[id], active_requests |-> 0,
     locked |-> FALSE, stop |-> "no", waiters |-> <<>>]

\* a RequestContext: in_history is membership of request_history,
\* completed counts the calls of complete_request, holding says that the
\* lock the request acquired has not been released on its behalf
HistNewReq == [pc |-> "new", instance_id |-> None, model_id |-> None, started_at |-> 0,
               in_history |-> FALSE, completed |-> 0, holding |-> FALSE]

InitHist ==
    /\ ErrIdle
    /\ LockIdle
    /\ RegInit
    /\ PPAIdle
    /\ SmIdle
    /\ fInst = [id \in FileIds |-> HistStopped(id)]
    /\ fReq = [r \in HistReqs |-> HistNewReq]
    /\ EnhIdle
    /\ SupIdle
    /\ FleetIdle

\* manager_lock is held by a stop_instance that waits for an instance lock
ManagerLockFree == \A id \in FileIds : fInst[id].stop = "no"

\* start_instance(instance_id, browser, page, partial): a new InstanceState
\* with a new lock replaces whatever self.instances held, READY, or ERROR
\* when the page set-up raises, or STARTING for a partial start
HistStartInstance(id, outcome) ==
    /\ ManagerLockFree
    /\ fInst[id].enabled
    /\ fInst' = [fInst EXCEPT ![id] = [HistStopped(id) EXCEPT !.running = TRUE,
                                                             !.status = outcome]]
    /\ UNCHANGED <<regVars, xFile, fReq>>

\* upgrade_partial_instance
UpgradePartialInstance(id, ok) ==
    /\ fInst[id].running
    /\ fInst[id].status = "starting"
    /\ fInst' = [fInst EXCEPT ![id].status = IF ok THEN "ready" ELSE "error"]
    /\ UNCHANGED <<regVars, xFile, fReq>>

\* route_request, strategy RANDOM, no preferred instance: the context is
\* put into request_history; acquire_instance_lock, its tests passed,
\* takes the lock or is suspended behind a stop_instance that was handed it
HistRouteRequest(r) ==
    LET filtered == FileFilter(FileOrder, M20Flash)
        ctx == [fReq[r] EXCEPT !.model_id = M20Flash, !.started_at = now,
                               !.in_history = TRUE]
    IN  /\ fReq[r].pc = "new"
        /\ r > 1 => fReq[r - 1].pc # "new"
        /\ UNCHANGED <<regVars, xFile>>
        /\ \E selected \in IF filtered = <<>> THEN {None}
                           ELSE {filtered[i] : i \in 1..Len(filtered)} :
            LET target == FirstRouted(TryOrder(None, selected, filtered), M20Flash)
            IN  IF target = None
                THEN /\ fReq' = [fReq EXCEPT ![r] = [ctx EXCEPT !.pc = "done"]]
                     /\ UNCHANGED fInst
                ELSE IF fInst[target].stop = "woken"
                THEN /\ fReq' = [fReq EXCEPT ![r] = [ctx EXCEPT !.pc = "lockwait"]]
                     /\ fInst' = [fInst EXCEPT ![target].waiters = Append(@, r)]
                ELSE /\ fReq' = [fReq EXCEPT ![r] =
                            [ctx EXCEPT !.pc = "routed", !.instance_id = target,
                                        !.holding = TRUE]]
                     /\ fInst' = [fInst EXCEPT ![target] =
                            [AcquireLock(fInst, target)[target] EXCEPT !.stop = @]]

\* release_instance_lock: a release of the lock wakes the stop_instance
\* that waits for it
HistReleaseLock(insts, id) ==
    LET rel == ReleaseLock(insts, id)
    IN  IF insts[id].running /\ insts[id].locked /\ insts[id].stop = "waiting"
        THEN [rel EXCEPT ![id].stop = "woken"]
        ELSE rel

\* the request ids of the history, oldest started_at first (sorted() is
\* stable: ties stay in the order of insertion)
Older(reqs, q, r) ==
    \/ reqs[q].started_at < reqs[r].started_at
    \/ reqs[q].started_at = reqs[r].started_at /\ q < r

\* the trim at the end of complete_request
Trimmed(reqs) ==
    LET hist == {r \in HistReqs : reqs[r].in_history}
    IN  IF Cardinality(hist) > HistoryMax
        THEN [r \in HistReqs |->
                IF r \in hist /\ Cardinality({q \in hist : Older(reqs, q, r)}) < TrimCount
                THEN [reqs[r] EXCEPT !.in_history = FALSE]
                ELSE reqs[r]]
        ELSE reqs

\* complete_request(request_id), called for a request route_request has
\* returned from; an id that is not in the history returns at once
CompleteRequestAgain(r) ==
    /\ fReq[r].pc \in {"routed", "done"}
    /\ fReq[r].in_history
    /\ fReq[r].completed < MaxCompletions
    /\ fInst' = IF fReq[r].instance_id # None
                THEN HistReleaseLock(fInst, fReq[r].instance_id)
                ELSE fInst
    /\ fReq' = Trimmed([fReq EXCEPT ![r] = [@ EXCEPT !.pc = "done", !.completed = @ + 1,
                                                     !.holding = FALSE]])
    /\ UNCHANGED <<regVars, xFile>>

\* cleanup_expired_requests: the release of every expired context that
\* names an instance, and the deletion of the context
RECURSIVE ReleaseAll(_, _)
ReleaseAll(insts, ids) ==
    IF ids = <<>> THEN insts
    ELSE ReleaseAll(HistReleaseLock(insts, Head(ids)), Tail(ids))

Expired(r) == fReq[r].in_history /\ now - fReq[r].started_at > file_request_timeout

CleanupExpiredRequests ==
    LET expired == SelectSeq([i \in 1..HistNumReqs |-> i], Expired)
        named == SelectSeq(expired, LAMBDA r : fReq[r].instance_id # None)
    IN  /\ expired # <<>>
        /\ fInst' = ReleaseAll(fInst, [i \in 1..Len(named) |-> fReq[named[i]].instance_id])
        /\ fReq' = [r \in HistReqs |->
                        IF Expired(r)
                        THEN [fReq[r] EXCEPT !.in_history = FALSE, !.holding = FALSE]
                        ELSE fReq[r]]
        /\ UNCHANGED <<regVars, xFile>>

\* stop_instance up to the lock of the instance: with the lock free it
\* runs to its end (STOPPED, page and browser closed, the state deleted);
\* with the lock held it is suspended, holding manager_lock
HistStopInstance(id) ==
    /\ ManagerLockFree
    /\ fInst[id].running
    /\ fInst' = IF fInst[id].locked
                THEN [fInst EXCEPT ![id].stop = "waiting"]
                ELSE [fInst EXCEPT ![id] = HistStopped(id)]
    /\ UNCHANGED <<regVars, xFile, fReq>>

\* stop_instance resumes with the lock: STOPPED, page and browser closed,
\* the state deleted, the lock released; the first request suspended in
\* acquire_instance_lock resumes behind it, past its tests (lines 482-489)
StopInstanceResumes(id) ==
    /\ fInst[id].stop = "woken"
    /\ fInst' = [fInst EXCEPT ![id] = HistStopped(id)]
    /\ fReq' = IF fInst[id].waiters = <<>> THEN fReq
               ELSE [fReq EXCEPT ![Head(fInst[id].waiters)] =
                        [@ EXCEPT !.pc = "routed", !.instance_id = id, !.holding = TRUE]]
    /\ UNCHANGED <<regVars, xFile>>

\* time passes, up to the first instant past the request time-out
HistTick ==
    /\ now < COOLDOWN
    /\ Tick

NextHist ==
    \/ HistTick
    \/ \E r \in HistReqs : HistRouteRequest(r)
    \/ \E r \in HistReqs : CompleteRequestAgain(r)
    \/ CleanupExpiredRequests
    \/ \E id \in FileIds, outcome \in {"ready", "error", "starting"} :
            HistStartInstance(id, outcome)
    \/ \E id \in FileIds, ok \in BOOLEAN : UpgradePartialInstance(id, ok)
    \/ \E id \in FileIds : HistStopInstance(id)
    \/ \E id \in FileIds : StopInstanceResumes(id)

SpecHist == InitHist /\ [][NextHist]_vars

----------------------------------------------------------------------------
(* multi_instance/enhanced/request_router.py over enhanced/                *)
(* instance_manager.py: the router with the request queue.  It never       *)
(* changes active_requests, and processing a request is a placeholder.     *)

request_timeout == 300

\* the enhanced deployment has the instances of SmInstances
StartsWithInstance1(id) == id \in {"instance_1_a"}

EnhNewReq == [pc |-> "new", started_at |-> 0, instance_id |-> None, status |-> 0,
              processed |-> FALSE]

NoTask == [state |-> "none", cur |-> 0]

InitEnh ==
    /\ ErrIdle
    /\ LockIdle
    /\ RegInit
    /\ PPAIdle
    /\ SmIdle
    /\ FileIdle
    /\ SupIdle
    /\ FleetIdle
    /\ enhInst = [id \in SmIds |->
                    [page |-> FALSE, active_requests |-> 0,
                     max_concurrent_requests |->
                        (CHOOSE c \in {SmInstances[i] : i \in 1..Len(SmInstances)} :
                            c.instance_id = id).max_concurrent_requests]]
    /\ enhStrategy \in RoutingStrategies
    /\ enhCounter = 0
    /\ enhQueue = <<>>
    /\ enhTask = NoTask
    /\ enhReq = [r \in Reqs |-> EnhNewReq]

\* enhanced InstanceManager.get_available_instances
EnhAvailable ==
    SelectSeq(SmOrder, LAMBDA id :
        enhInst[id].page
        /\ enhInst[id].active_requests < enhInst[id].max_concurrent_requests)

\* enhanced _select_instance: the ids it can return, None when nothing is
\* available
EnhSelectInstance ==
    LET av == EnhAvailable
        primary_instances == SelectSeq(av, StartsWithInstance1)
    IN  IF av = <<>> THEN {None}
        ELSE CASE enhStrategy = "primary_first" ->
                    {IF primary_instances # <<>> THEN primary_instances[1] ELSE av[1]}
               [] enhStrategy = "least_loaded" -> {SelectLeastLoaded(enhInst, av)}
               [] enhStrategy = "round_robin" -> {av[(enhCounter % Len(av)) + 1]}
               [] enhStrategy = "random" -> {av[i] : i \in 1..Len(av)}

EnhCounterAfterSelect ==
    IF enhStrategy = "round_robin" /\ EnhAvailable # <<>>
    THEN enhCounter + 1 ELSE enhCounter

\* the age test of _process_queue (lines 290-294)
TimedOut(r) == now - enhReq[r].started_at > request_timeout

\* the iterations of _process_queue that drop the head and go on
RECURSIVE DropTimedOut(_)
DropTimedOut(q) ==
    IF q # <<>> /\ TimedOut(Head(q)) THEN DropTimedOut(Tail(q)) ELSE q

\* route_request (lines 76-151) up to its first suspension: with an
\* instance the request is processed in place; with none it is queued, the
\* consumer task is created if there is none running, and the client is
\* answered 202
EnhRouteRequest(r) ==
    /\ enhReq[r].pc = "new"
    /\ r > 1 => enhReq[r - 1].pc # "new"
    /\ enhCounter' = EnhCounterAfterSelect
    /\ UNCHANGED <<now, xEnh, enhInst, enhStrategy>>
    /\ \E id \in EnhSelectInstance :
        IF id # None
        THEN /\ enhReq' = [enhReq EXCEPT ![r] = [@ EXCEPT !.pc = "processing",
                                    !.started_at = now, !.instance_id = id]]
             /\ UNCHANGED <<enhQueue, enhTask>>
        ELSE /\ enhReq' = [enhReq EXCEPT ![r] = [@ EXCEPT !.pc = "done",
                                    !.started_at = now, !.status = 202]]
             /\ enhTask' = IF enhTask.state \in {"none", "done"}
                           THEN [state |-> "ready", cur |-> 0] ELSE enhTask
             /\ enhQueue' = Append(enhQueue, r)

\* _process_request_on_instance returns to route_request
EnhProcessed(r) ==
    /\ enhReq[r].pc = "processing"
    /\ enhReq' = [enhReq EXCEPT ![r] = [@ EXCEPT !.pc = "done", !.status = 200,
                                                !.processed = TRUE]]
    /\ UNCHANGED <<now, xEnh, enhInst, enhStrategy, enhCounter, enhQueue, enhTask>>

\* the consumer task runs from where it was suspended to its next
\* suspension (lines 282-317): it closes the request it was processing,
\* drops the heads that have timed out, and then ends on an empty queue,
\* or sleeps with the head put back at the tail, or processes the head
ProcessQueue ==
    LET reqs == IF enhTask.state = "processing"
                THEN [enhReq EXCEPT ![enhTask.cur].processed = TRUE] ELSE enhReq
        q == DropTimedOut(enhQueue)
    IN  /\ enhTask.state \in {"ready", "sleeping", "processing"}
        /\ UNCHANGED <<now, xEnh, enhInst, enhStrategy>>
        /\ IF q = <<>>
           THEN /\ enhTask' = [state |-> "done", cur |-> 0]
                /\ enhQueue' = q
                /\ enhReq' = reqs
                /\ UNCHANGED enhCounter
           ELSE /\ enhCounter' = EnhCounterAfterSelect
                /\ \E id \in EnhSelectInstance :
                    IF id = None
                    THEN /\ enhTask' = [state |-> "sleeping", cur |-> 0]
                         /\ enhQueue' = Append(Tail(q), Head(q))
                         /\ enhReq' = reqs
                    ELSE /\ enhTask' = [state |-> "processing", cur |-> Head(q)]
                         /\ enhQueue' = Tail(q)
                         /\ enhReq' = [reqs EXCEPT ![Head(q)].instance_id = id]

\* a page is attached to the runtime of an instance
EnhAttachPage(id) ==
    /\ ~enhInst[id].page
    /\ enhInst' = [enhInst EXCEPT ![id].page = TRUE]
    /\ UNCHANGED <<now, xEnh, enhStrategy, enhCounter, enhQueue, enhTask, enhReq>>

\* enhanced stop_instance: a fresh InstanceRuntime
EnhStopInstance(id) ==
    /\ enhInst[id].page
    /\ enhInst' = [enhInst EXCEPT ![id].page = FALSE, ![id].active_requests = 0]
    /\ UNCHANGED <<now, xEnh, enhStrategy, enhCounter, enhQueue, enhTask, enhReq>>

NextEnh ==
    \/ Tick
    \/ \E r \in Reqs : EnhRouteRequest(r)
    \/ \E r \in Reqs : EnhProcessed(r)
    \/ ProcessQueue
    \/ \E id \in SmIds : EnhAttachPage(id)
    \/ \E id \in SmIds : EnhStopInstance(id)

SpecEnh == InitEnh /\ [][NextEnh]_vars

----------------------------------------------------------------------------
(* multi_account_manager.py: the supervisor.  ProcessManager starts one    *)
(* worker process per enabled account of the configuration the account     *)
(* router reads too, and a monitor thread checks the workers.  The router  *)
(* probes the workers' /health on its own and keeps its own status.        *)

\* AccountInstance, as initialize_instances builds it; process is None,
\* "alive" (launched), "serving" (listening on its port) or "exited"
AccountInstance(a) ==
    [enabled |-> a.enabled, process |-> None, status |-> "stopped",
     last_heartbeat |-> <<>>, restart_count |-> 0]

\* config["router"]["auto_restart"] and ["health_check_interval"], defaults
auto_restart == TRUE
health_check_interval == 30

\* the exits of worker processes the model follows
MaxExits == 7

RECURSIVE Exits(_)
Exits(ids) ==
    IF ids = <<>> THEN 0
    ELSE supInst[Head(ids)].restart_count
         + (IF supInst[Head(ids)].process = "exited" THEN 1 ELSE 0)
         + Exits(Tail(ids))

\* what start_instance meets: a free port, the auth file and a launch that
\* works, or one of its three failures
StartOutcomes == {"ok", "port_in_use", "auth_missing", "popen_error"}

MonitorIdle == [pc |-> "wait", i |-> 0]

InitSup ==
    /\ ErrIdle
    /\ LockIdle
    /\ RegInit
    /\ ppaInst = [id \in PPAIds |->
                    BackendInstance(CHOOSE a \in {PPAAccounts[i] : i \in 1..Len(PPAAccounts)} :
                                        a.id = id)]
    /\ ppaStrategy = None
    /\ ppaIndex = 0
    /\ ppaReq = <<>>
    /\ ppaHealth = NoAnswer
    /\ ppaBeat = <<>>
    /\ SmIdle
    /\ FileIdle
    /\ EnhIdle
    /\ FleetIdle
    /\ supInst = [id \in PPAIds |->
                    AccountInstance(CHOOSE a \in {PPAAccounts[i] : i \in 1..Len(PPAAccounts)} :
                                        a.id = id)]
    /\ supMain = 1
    /\ supMon = MonitorIdle
    /\ supStop = FALSE

\* ProcessManager.start_instance
start_instance(inst, outcome) ==
    IF inst.status = "running" THEN inst
    ELSE IF ~inst.enabled THEN inst
    ELSE IF outcome = "port_in_use" THEN [inst EXCEPT !.status = "failed"]
    ELSE IF outcome = "auth_missing" THEN [inst EXCEPT !.status = "failed"]
    ELSE IF outcome = "popen_error" THEN [inst EXCEPT !.status = "failed"]
    ELSE [inst EXCEPT !.process = "alive", !.status = "starting",
                      !.last_heartbeat = <<now>>]

\* ProcessManager.stop_instance
stop_instance(inst) ==
    IF inst.process = None THEN inst
    ELSE [inst EXCEPT !.process = None, !.status = "stopped", !.last_heartbeat = <<>>]

\* ProcessManager.start_all, one account of its loop
StartAll(outcome) ==
    /\ supMain <= Len(PPAOrder)
    /\ LET id == PPAOrder[supMain] IN
        supInst' = [supInst EXCEPT ![id] =
                        IF supInst[id].enabled THEN start_instance(supInst[id], outcome)
                        ELSE supInst[id]]
    /\ supMain' = supMain + 1
    /\ UNCHANGED <<xSup, now, supMon, supStop>>

\* the worker process: it starts to listen on its port
WorkerListens(id) ==
    /\ supInst[id].process = "alive"
    /\ supInst' = [supInst EXCEPT ![id].process = "serving"]
    /\ UNCHANGED <<xSup, now, supMain, supMon, supStop>>

\* the worker process exits (a crash, a kill)
WorkerExits(id) ==
    /\ supInst[id].process \in {"alive", "serving"}
    /\ Exits(PPAOrder) < MaxExits
    /\ supInst' = [supInst EXCEPT ![id].process = "exited"]
    /\ UNCHANGED <<xSup, now, supMain, supMon, supStop>>

\* ProcessManager._monitor_loop: the next pass of _check_health begins
MonitorLoop ==
    /\ supMain > Len(PPAOrder)
    /\ ~supStop
    /\ supMon.pc = "wait"
    /\ supMon' = [pc |-> "check", i |-> 1]
    /\ UNCHANGED <<xSup, now, supInst, supMain, supStop>>

\* the monitor after the iteration of account i
MonitorNext(i) ==
    IF i < Len(PPAOrder) THEN [pc |-> "check", i |-> i + 1] ELSE MonitorIdle

\* ProcessManager._check_health, lines 341-347, on the record r
CheckPort(r, port_in_use) ==
    IF r.status # "running" THEN r
    ELSE IF port_in_use THEN [r EXCEPT !.last_heartbeat = <<now>>]
    ELSE [r EXCEPT !.status = "failed"]

\* ProcessManager._check_health, one account of its loop, up to the call of
\* stop_instance when the process is found dead
CheckHealth(port_in_use) ==
    /\ supMon.pc = "check"
    /\ LET id == PPAOrder[supMon.i]
           inst == supInst[id] IN
        /\ IF ~inst.enabled \/ inst.status = "stopped"
           THEN /\ supMon' = MonitorNext(supMon.i)
                /\ UNCHANGED supInst
           ELSE IF inst.process = "exited"
           THEN IF auto_restart
                THEN /\ supInst' = [supInst EXCEPT ![id].status = "failed",
                                                   ![id].restart_count = @ + 1]
                     /\ supMon' = [pc |-> "stop", i |-> supMon.i]
                ELSE /\ supInst' = [supInst EXCEPT ![id].status = "failed"]
                     /\ supMon' = MonitorNext(supMon.i)
           ELSE /\ supInst' = [supInst EXCEPT ![id] = CheckPort(inst, port_in_use)]
                /\ supMon' = MonitorNext(supMon.i)
    /\ UNCHANGED <<xSup, now, supMain, supStop>>

\* ProcessManager._check_health, line 337: stop_instance, then the sleep
RestartStop ==
    /\ supMon.pc = "stop"
    /\ LET id == PPAOrder[supMon.i] IN
        supInst' = [supInst EXCEPT ![id] = stop_instance(supInst[id])]
    /\ supMon' = [supMon EXCEPT !.pc = "start"]
    /\ UNCHANGED <<xSup, now, supMain, supStop>>

\* ProcessManager._check_health, line 339: start_instance, and the rest of
\* the iteration
RestartStart(outcome, port_in_use) ==
    /\ supMon.pc = "start"
    /\ LET id == PPAOrder[supMon.i] IN
        supInst' = [supInst EXCEPT ![id] =
                        CheckPort(start_instance(supInst[id], outcome), port_in_use)]
    /\ supMon' = MonitorNext(supMon.i)
    /\ UNCHANGED <<xSup, now, supMain, supStop>>

RECURSIVE StopEach(_, _)
StopEach(ids, insts) ==
    IF ids = <<>> THEN insts
    ELSE StopEach(Tail(ids), [insts EXCEPT ![Head(ids)] = stop_instance(insts[Head(ids)])])

\* ProcessManager.stop, run by the signal handler
Stop ==
    /\ ~supStop
    /\ supStop' = TRUE
    /\ supInst' = StopEach(PPAOrder, supInst)
    /\ UNCHANGED <<xSup, now, supMain, supMon>>

\* MultiAccountRouter._perform_health_check on one worker: GET /health is
\* answered with 200 when the worker process listens
ProbeWorker(id) ==
    Probe(id, supInst[id].process = "serving")

NextSup ==
    \/ Tick
    \/ \E o \in StartOutcomes : StartAll(o)
    \/ \E id \in PPAIds : WorkerListens(id)
    \/ \E id \in PPAIds : WorkerExits(id)
    \/ MonitorLoop
    \/ \E p \in BOOLEAN : CheckHealth(p)
    \/ RestartStop
    \/ \E o \in StartOutcomes, p \in BOOLEAN : RestartStart(o, p)
    \/ Stop
    \/ \E id \in PPAIds : ProbeWorker(id)

SpecSup == InitSup /\ [][NextSup]_vars

\* The monitor thread and the router's health_check_task run for ever, each
\* on its period, and start_all runs to its end.
FairSup ==
    /\ WF_vars(\E o \in StartOutcomes : StartAll(o))
    /\ WF_vars(MonitorLoop)
    /\ WF_vars(\E p \in BOOLEAN : CheckHealth(p))
    /\ WF_vars(RestartStop)
    /\ WF_vars(\E o \in StartOutcomes, p \in BOOLEAN : RestartStart(o, p))
    /\ \A id \in PPAIds : WF_vars(ProbeWorker(id))

SpecSupLive == InitSup /\ [][NextSup]_vars /\ FairSup

----------------------------------------------------------------------------
(* The fleet: the instance configurations that multi_instance/             *)
(* instance_manager.py and multi_instance/enhanced/instance_manager.py     *)
(* derive from the auth files of auth_profiles/multi.                      *)

\* the e-mails the auth files can stand for
Emails == {"a@x", "b@x"}

\* the configurations the model lets a manager hold
MaxFleet == 2

\* the first port: "9222 + len(...)" in both managers
PortBase == 9222

\* the orders in which glob("*.json") can yield the files of the directory
GlobOrders(dir) ==
    {q \in [1..Cardinality(dir) -> dir] : \A i, k \in 1..Cardinality(dir) : q[i] = q[k] => i = k}

\* every order of every directory
AllOrders == UNION {GlobOrders(dir) : dir \in SUBSET Emails}

HasEmail(cfgs, e) == \E i \in 1..Len(cfgs) : cfgs[i].email = e

\* AutoCreate with the look-up of the existing configuration left out
RECURSIVE AutoCreateNoLookup(_, _)
AutoCreateNoLookup(cfgs, profiles) ==
    IF profiles = <<>> THEN cfgs
    ELSE AutoCreateNoLookup(
            Append(cfgs, [instance_id |-> <<"n", Len(cfgs) + 1, Head(profiles)>>,
                          email |-> Head(profiles),
                          port |-> PortBase + Len(cfgs)]),
            Tail(profiles))

\* MultiInstanceManager.auto_create_instances, the loop over the profiles:
\* instance_id is "instance_<len + 1>_<email>"
RECURSIVE AutoCreate(_, _)
AutoCreate(cfgs, profiles) ==
    IF profiles = <<>> THEN cfgs
    ELSE AutoCreate(
            IF HasEmail(cfgs, Head(profiles)) THEN cfgs
            ELSE Append(cfgs, [instance_id |-> <<"n", Len(cfgs) + 1, Head(profiles)>>,
                               email |-> Head(profiles),
                               port |-> PortBase + Len(cfgs)]),
            Tail(profiles))

NoReconcile == [dir |-> {}, calls |-> 0]

InitFleet ==
    /\ ErrIdle
    /\ LockIdle
    /\ RegInit
    /\ PPAIdle
    /\ SmIdle
    /\ FileIdle
    /\ EnhIdle
    /\ SupIdle
    /\ fleetDir = {}
    /\ fleetCfg = <<>>
    /\ fleetRun = {}
    /\ fleetLast = NoReconcile
    /\ eProfiles = {}
    /\ eInstances = <<>>
    /\ eSaved = <<>>

\* an auth file is put into, or taken out of, the directory
AddAuthFile(e) ==
    /\ e \notin fleetDir
    /\ fleetDir' = fleetDir \cup {e}
    /\ UNCHANGED <<xFleet, fleetCfg, fleetRun, fleetLast, eProfiles, eInstances, eSaved>>

RemoveAuthFile(e) ==
    /\ e \in fleetDir
    /\ fleetDir' = fleetDir \ {e}
    /\ UNCHANGED <<xFleet, fleetCfg, fleetRun, fleetLast, eProfiles, eInstances, eSaved>>

\* MultiInstanceManager.auto_create_instances; fleetLast counts the calls made
\* in a row on the same contents of the directory
AutoCreateInstances(order) ==
    /\ order \in GlobOrders(fleetDir)
    /\ fleetCfg' = AutoCreate(fleetCfg, order)
    /\ fleetLast' = [dir |-> fleetDir,
                     calls |-> IF fleetLast.calls > 0 /\ fleetLast.dir = fleetDir
                               THEN 2 ELSE 1]
    /\ UNCHANGED <<xFleet, fleetDir, fleetRun, eProfiles, eInstances, eSaved>>

\* MultiInstanceManager.start_instance and stop_instance, as far as they
\* change the keys of self.instances
FleetStartInstance(i) ==
    /\ i \in 1..Len(fleetCfg)
    /\ fleetCfg[i].instance_id \notin fleetRun
    /\ fleetRun' = fleetRun \cup {fleetCfg[i].instance_id}
    /\ UNCHANGED <<xFleet, fleetDir, fleetCfg, fleetLast, eProfiles, eInstances, eSaved>>

FleetStopInstance(i) ==
    /\ i \in 1..Len(fleetCfg)
    /\ fleetCfg[i].instance_id \in fleetRun
    /\ fleetRun' = fleetRun \ {fleetCfg[i].instance_id}
    /\ UNCHANGED <<xFleet, fleetDir, fleetCfg, fleetLast, eProfiles, eInstances, eSaved>>

\* enhanced InstanceManager._create_default_instance_configs
CreateDefaultInstanceConfigs(order) ==
    [i \in 1..Len(order) |->
        [instance_id |-> <<"n", i, order[i]>>, email |-> order[i],
         port |-> PortBase + i - 1]]

\* enhanced InstanceManager._load_instance_configs on a file that exists: an
\* instance whose auth profile is not found is skipped
LoadInstanceConfigs(saved, profiles) ==
    SelectSeq(saved, LAMBDA c : c.email \in profiles)

\* enhanced InstanceManager.initialize in a new process: load_auth_profiles,
\* then _load_instance_configs
Initialize(order) ==
    /\ order \in GlobOrders(fleetDir)
    /\ eProfiles' = fleetDir
    /\ IF eSaved = <<>>
       THEN /\ eInstances' = CreateDefaultInstanceConfigs(order)
            /\ eSaved' = <<eInstances'>>
       ELSE /\ eInstances' = LoadInstanceConfigs(eSaved[1], fleetDir)
            /\ UNCHANGED eSaved
    /\ UNCHANGED <<xFleet, fleetDir, fleetCfg, fleetRun, fleetLast>>

\* self.instances[instance_id] = config on a dict kept in insertion order
PutInstance(insts, c) ==
    IF \E i \in 1..Len(insts) : insts[i].instance_id = c.instance_id
    THEN [i \in 1..Len(insts) |->
            IF insts[i].instance_id = c.instance_id THEN c ELSE insts[i]]
    ELSE Append(insts, c)

\* enhanced InstanceManager.launch_instance; instance_id is
\* "instance_<int(time.time())>_<email>", and start_instance returns True
LaunchInstance(e) ==
    /\ e \in eProfiles
    /\ Len(eInstances) < MaxFleet
    /\ eInstances' = PutInstance(eInstances,
                        [instance_id |-> <<"t", now, e>>, email |-> e,
                         port |-> PortBase + Len(eInstances)])
    /\ eSaved' = <<eInstances'>>
    /\ UNCHANGED <<xFleet, fleetDir, fleetCfg, fleetRun, fleetLast, eProfiles>>

NextFleet ==
    \/ Tick
    \/ \E e \in Emails : AddAuthFile(e)
    \/ \E e \in Emails : RemoveAuthFile(e)
    \/ \E order \in AllOrders : AutoCreateInstances(order)
    \/ \E i \in 1..MaxFleet : FleetStartInstance(i)
    \/ \E i \in 1..MaxFleet : FleetStopInstance(i)
    \/ \E order \in AllOrders : Initialize(order)
    \/ \E e \in Emails : LaunchInstance(e)

SpecFleet == InitFleet /\ [][NextFleet]_vars

----------------------------------------------------------------------------
(* Claims on the registry (SpecReg)                                        *)

\* what is_model_available answers for model m on the state ms at time t
Avail(ms, m, t) == IsModelAvailable(ms, m, t)[1]

\* (ms, m) holds a quota event that has not been reset
QuotaMarked(ms, m) ==
    m \in DOMAIN ms /\ ~ms[m].available /\ ms[m].quota_exceeded_time # <<>>

\* a step that is a call of operation op (the clock stands still in a call)
IsCall(op) == regCall'.op = op /\ now' = now /\ vars' # vars

FirstAvailable(ms, chain, t) ==
    IF \E i \in 1..Len(chain) : Avail(ms, chain[i], t)
    THEN chain[CHOOSE i \in 1..Len(chain) :
                   /\ Avail(ms, chain[i], t)
                   /\ \A j \in 1..(i - 1) : ~Avail(ms, chain[j], t)]
    ELSE None

\* C6: get_fallback_model(instance, requested) returns the requested model if
\* it is available for the instance; otherwise the first model of the
\* requested model's fallback chain, in chain order, that is available for
\* the instance; and None exactly when neither the requested model nor any
\* chain entry is available.
C6_ResolveModel ==
    [][IsCall("get_fallback") =>
        LET ms == model_status[regCall'.w]
            m == regCall'.m
        IN  regCall'.result =
                IF Avail(ms, m, now) THEN m
                ELSE FirstAvailable(ms, FallbackModels(m), now)]_vars

\* C6 witness: a call skipped the requested model and the first chain entry
\* and returned the second chain entry.
C6_Witness ==
    /\ regCall.op = "get_fallback"
    /\ Len(FallbackModels(regCall.m)) >= 2
    /\ regCall.result = FallbackModels(regCall.m)[2]
    /\ QuotaMarked(model_status[regCall.w], FallbackModels(regCall.m)[1])

\* C7 as stated: on a pair marked unavailable, is_model_available returns
\* false while now - quota_exceeded_time < cooldown and true as soon as
\* now - quota_exceeded_time >= cooldown, the boundary instant included.
C7_AsStated ==
    [][IsCall("is_available") /\ QuotaMarked(model_status[regCall'.w], regCall'.m) =>
        LET st == model_status[regCall'.w][regCall'.m]
        IN  regCall'.result = (now - st.quota_exceeded_time[1] >= COOLDOWN)]_vars

\* C7 amended: on a pair marked unavailable, is_model_available returns false
\* and changes nothing while now - quota_exceeded_time <= 3600; once
\* now - quota_exceeded_time > 3600 it sets available = True, clears
\* quota_exceeded_time, and returns true.
C7_IsAvailable ==
    [][IsCall("is_available") /\ QuotaMarked(model_status[regCall'.w], regCall'.m) =>
        LET w == regCall'.w
            m == regCall'.m
            st == model_status[w][m]
            over == now - st.quota_exceeded_time[1] > COOLDOWN
        IN  /\ regCall'.result = over
            /\ over => /\ model_status'[w][m].available
                       /\ model_status'[w][m].quota_exceeded_time = <<>>
                       /\ model_status'[w][m].error_count = st.error_count
            /\ ~over => model_status' = model_status]_vars

\* C7 witness: a call has answered true for a pair that carries a quota
\* event and that the call found past its cooldown (restored, time cleared).
C7_Witness ==
    /\ regCall.op = "is_available"
    /\ regCall.result = TRUE
    /\ regCall.m \in DOMAIN model_status[regCall.w]
    /\ model_status[regCall.w][regCall.m].error_count > 0
    /\ model_status[regCall.w][regCall.m].quota_exceeded_time = <<>>

\* a call that resolves model m on an instance where m carries a quota event
\* whose cooldown has not elapsed (now - quota_exceeded_time <= 3600)
ResolvesMarked ==
    /\ IsCall("get_fallback")
    /\ QuotaMarked(model_status[regCall'.w], regCall'.m)
    /\ ~CooldownOver(now, model_status[regCall'.w][regCall'.m].quota_exceeded_time[1])
    /\ FallbackModels(regCall'.m) # <<>>

----------------------------------------------------------------------------
(* Claims on the process-per-account router                                *)

\* C1 as stated: in every reachable state every worker's in-flight counter
\* lies between zero and the worker's configured cap.  The router violates
\* it: a buffered reply that JSONResponse refuses is counted down twice.
C1_AsStated ==
    \A id \in DOMAIN ppaInst :
        /\ 0 <= ppaInst[id].current_concurrent
        /\ ppaInst[id].current_concurrent <= ppaInst[id].max_concurrent

\* C2 as stated: no request for model m is dispatched to worker w while
\* (w, m) carries a quota event whose cooldown has not elapsed.  The router
\* violates it: get_instance never reads the registry.
C2_AsStated ==
    \A r \in Reqs : ppaReq[r].inst # None => ~ppaReq[r].blocked

\* C4 as stated: a request that has ended holds no slot, that is, the
\* increment made for it has been undone exactly once.  The router violates
\* it both ways (a stream never iterated keeps its slot, a refused buffered
\* reply gives it back twice).
C4_AsStated ==
    \A r \in Reqs : ppaReq[r].pc = "done" => ppaReq[r].held = 0

\* C8 as stated: HTTP 429 reaches the client only when the registry has no
\* fallback for the worker and the model (the router has no retries to
\* exhaust).  The router violates it: the worker's 429 is passed through.
C8_AsStated ==
    \A r \in Reqs : ppaReq[r].status = 429 => ppaReq[r].fallback = None

\* C12 as stated, for the router that has no queue: a request that finds no
\* eligible worker is answered 503 carrying Retry-After: 30.  The router
\* violates it: its 503 carries no Retry-After header.
C12_AsStated ==
    \A r \in Reqs : ppaReq[r].status = 503 => ppaReq[r].retry_after = "30"

\* C13 as stated: GET /health answers 200 only if at least one worker is
\* Ready (healthy) while it answers.  The router violates it: the handler
\* answers 200 whatever the count, and says "unhealthy" in the body.
C13_AsStated ==
    ppaHealth.status_code = 200 => ppaHealth.healthy > 0

\* C21: when the client closes the connection during a streaming response, the
\* upstream forward is cancelled, the worker's concurrency slot is released
\* (activeRequests decrements by 1), and the request is not retried on any
\* worker.  As stated: a request the client has closed holds no slot.
C21_AsStated ==
    \A r \in Reqs : ppaReq[r].ended_by = "client" => ppaReq[r].held = 0

\* C22: when a request exceeds its deadline requestTimeout (300 s) anywhere on
\* the forward-plus-stream path, the upstream call is cancelled, the worker's
\* slot is released, and the client receives 504.  As stated: a request ended
\* by the time-out holds no slot and has status 504.
C22_AsStated ==
    \A r \in Reqs :
        ppaReq[r].ended_by = "timeout" => ppaReq[r].held = 0 /\ ppaReq[r].status = 504

----------------------------------------------------------------------------
(* Claims on the in-process router                                         *)

\* the request is handed to a page in this step
Dispatched(r) == Len(smReq'[r].trail) > Len(smReq[r].trail)

----------------------------------------------------------------------------
(* Claims on the router of the instances.json deployment                   *)

\* the eligibility predicate of the specification, on the current state
Eligible(id, m) ==
    /\ fInst[id].enabled
    /\ fInst[id].status \in {"ready", "busy"}
    /\ fInst[id].active_requests < fInst[id].max_concurrent_requests
    /\ m \notin instance_blacklists[id]
    /\ instance_whitelists[id] = {} \/ m \in instance_whitelists[id]
    /\ IsModelAvailable(model_status[id], m, now)[1]

\* C3 as stated: whenever a request is assigned to an instance, the whole
\* eligibility predicate of the instance held in the state the assignment
\* was made in (enabled, Ready or Busy, below its cap, model not
\* blacklisted, whitelist empty or holding the model, pair available in the
\* quota registry).  The router violates it: it reads neither the registry
\* nor the enabled flag.
C3_AsStated ==
    [][\A r \in Reqs :
        fReq[r].instance_id = None /\ fReq'[r].instance_id # None
            => Eligible(fReq'[r].instance_id, fReq'[r].model_id)]_vars

\* C20: within a single worker, requests may be interleaved up to maxConcurrent:
\* a request for a worker with activeRequests < maxConcurrent is admitted while
\* other requests are in progress on it, so that a worker with maxConcurrent = 2
\* has 2 requests in flight under saturation.  As stated: no request is turned
\* away while an instance that serves its model has requests in progress and
\* is below its cap.
C20_AsStated ==
    [][\A r \in Reqs :
        (fReq[r].pc = "new" /\ fReq'[r].pc = "done")
            => ~\E id \in FileIds :
                    /\ fInst[id].running
                    /\ fInst[id].status = "busy"
                    /\ fInst[id].active_requests > 0
                    /\ fInst[id].active_requests < fInst[id].max_concurrent_requests
                    /\ IsModelAvailableForInstance(id, fReq'[r].model_id)]_vars

----------------------------------------------------------------------------
(* Claims on the router with the queue                                     *)

InQueue(r) == \E i \in 1..Len(enhQueue) : enhQueue[i] = r

\* C10 as stated: the queue never loses a request, that is, a request that
\* was queued (and answered 202) is still in the queue or has been handed
\* to an instance.  The router violates it: the consumer drops a queued
\* request whose age exceeds request_timeout.
C10_AsStated ==
    \A r \in Reqs : enhReq[r].status = 202 => InQueue(r) \/ enhReq[r].instance_id # None

\* C11 as stated: the drain takes queued requests out in arrival order: the
\* request it will take next, the head of the queue, is the one that
\* arrived first among those waiting (requests arrive in the order of their
\* numbers).  The router violates it: a head that finds no instance is put
\* back at the tail, behind the requests that arrived after it.
C11_AsStated ==
    \A i \in 1..Len(enhQueue) : enhQueue[1] <= enhQueue[i]

----------------------------------------------------------------------------
(* Claims on the supervisor                                                *)

\* the edges of the worker state machine, in the supervisor's names for the
\* states (Ready is "running"; it has no Busy and no Restarting)
WorkerEdges ==
    {<<"stopped", "starting">>, <<"starting", "running">>, <<"running", "failed">>,
     <<"failed", "starting">>, <<"failed", "stopped">>}

\* C14: every change of a worker's state follows an edge of the state machine
\* Stopped -> Starting -> Ready -> Busy <-> Ready -> (Failed | Restarting)
\* -> Starting | Stopped; no other transition occurs.  As stated; start_instance
\* takes a stopped worker straight to "failed" when its port is taken.
C14_AsStated ==
    [][\A id \in PPAIds :
        supInst'[id].status # supInst[id].status
            => <<supInst[id].status, supInst'[id].status>> \in WorkerEdges]_vars

\* C15: after a worker's subprocess exits, /router/status reports the worker
\* as Failed (no longer healthy) within 2 x probeInterval.  As stated, without
\* the bound: a worker that the router shows healthy when its process exits is
\* shown not healthy at some later time, unless the supervisor is stopped.
C15_AsStated ==
    \A id \in PPAIds :
        (supInst[id].process = "exited" /\ ppaInst[id].status = "healthy")
            ~> (supStop \/ ppaInst[id].status # "healthy")

\* C16: a worker that enters Starting does not stay there: it becomes Ready on
\* its first successful probe, and its wait is bounded by startupTimeout (60 s).
\* As stated: an iteration of the supervisor's health check leaves no worker in
\* "starting" that was started more than 60 s before.
C16_AsStated ==
    [][(supMon.pc = "check" /\ supMon' # supMon)
        => LET id == PPAOrder[supMon.i] IN
            supInst'[id].status = "starting"
                => now - supInst'[id].last_heartbeat[1] <= 60]_vars

\* C18: a worker that exceeds maxConsecutiveRestarts (5) restarts within a
\* rolling 10-minute window is marked permanently Failed and is never restarted
\* again until an operator resets it.  As stated: while the clock stands at its
\* first instant, the supervisor has restarted no worker more than once beyond
\* the five.
C18_AsStated ==
    \A id \in PPAIds : now = 1 => supInst[id].restart_count <= 5 + 1

\* C19: when starting a worker fails (port in use, launch error), the worker is
\* marked Failed and a restart is subsequently attempted under backoff while
\* auto-restart is enabled.  As stated, without the backoff: a worker left
\* "failed" by a start that failed is started again at some later time, unless
\* the supervisor is stopped.
C19_AsStated ==
    \A id \in PPAIds :
        (supInst[id].status = "failed" /\ supInst[id].process = None)
            ~> (supStop \/ (supMon.pc = "start" /\ PPAOrder[supMon.i] = id))

----------------------------------------------------------------------------
(* Claims on the health loop of the account router                         *)

\* C17: probe failures move a worker to Failed only once consecutive failures
\* have lasted beyond unhealthyAfter (2 x probeInterval); a probe failure within
\* that window leaves the worker's state unchanged.  As stated: a healthy worker
\* becomes "unhealthy" only when its last good probe is more than
\* 2 * health_check_interval old.
C17_AsStated ==
    [][\A id \in PPAIds :
        (ppaInst[id].status = "healthy" /\ ppaInst'[id].status = "unhealthy")
            => now - ppaBeat[id][1] > 2 * health_check_interval]_vars

----------------------------------------------------------------------------
(* Claims on the fleet                                                     *)

DistinctPorts(cfgs) ==
    \A i, k \in 1..Len(cfgs) : i # k => cfgs[i].port # cfgs[k].port

\* C23: port uniqueness: at any instant, any two distinct enabled workers have
\* different ports, also after workers have been added, removed and added
\* again.  As stated, for the configurations of both managers.
C23_AsStated == DistinctPorts(fleetCfg) /\ DistinctPorts(eInstances)

\* C24: reconciling the fleet twice with the same auth-directory contents
\* produces the identical worker set (same ids and ports) and leaves the
\* runtime state of unaffected workers unchanged: the second of two calls of
\* auto_create_instances made in a row on the same directory changes neither
\* the configurations nor the started instances.
C24_Idempotent ==
    [][(fleetLast.calls = 1 /\ fleetLast'.calls = 2)
        => fleetCfg' = fleetCfg /\ fleetRun' = fleetRun]_vars

\* a second call in a row has been made, on a fleet with a started instance
C24_Witness ==
    /\ fleetLast.calls = 2
    /\ Len(fleetCfg) = Cardinality(Emails)
    /\ fleetRun # {}

----------------------------------------------------------------------------
(* Claims on the round-robin and hash strategies                                      *)

\* the requests that were given a worker, and those given the worker w
RRDispatched == {r \in RRReqs : ppaReq[r].inst # None}
RRDispatchedTo(w) == {r \in RRReqs : ppaReq[r].inst = w}

RREnabled == {id \in PPAIds : ppaInst[id].enabled}

\* C25 as stated: N requests over k equally weighted workers give each worker
\* N/k +- 1 requests, the eligible list being what it may.
C25_AsStated ==
    ppaStrategy = "roundrobin" => \A w \in RREnabled :
        LET diff == Cardinality(RREnabled) * Cardinality(RRDispatchedTo(w))
                    - Cardinality(RRDispatched)
        IN  diff <= Cardinality(RREnabled) /\ -diff <= Cardinality(RREnabled)

\* C25: RoundRobin picks the next eligible worker by a monotonically
\* incrementing index modulo the eligible list, so that N requests give each
\* of k workers N/k +- 1 requests -- when every one of the N requests was
\* selected on the same eligible list of k workers: the index counts the
\* selections, and the workers of that list differ by one request at most.
C25_RoundRobin ==
    ppaStrategy = "roundrobin" =>
    /\ ppaIndex = Cardinality(RRDispatched)
    /\ \A r \in RRDispatched :
        (\A q \in RRDispatched : ppaReq[q].available = ppaReq[r].available)
            => \A i, k \in 1..Len(ppaReq[r].available) :
                LET ci == Cardinality(RRDispatchedTo(ppaReq[r].available[i]))
                    ck == Cardinality(RRDispatchedTo(ppaReq[r].available[k]))
                IN  ci - ck <= 1 /\ ck - ci <= 1

\* five requests have been dispatched, each on the list of both workers
C25_Witness ==
    /\ ppaStrategy = "roundrobin"
    /\ Cardinality(RRDispatched) = RRNumReqs
    /\ \A r \in RRDispatched : Len(ppaReq[r].available) = Cardinality(RREnabled)

\* the key the hash is said to be taken of: the bearer token, else
\* X-API-Key, else the address of the client
StatedClientKey(c) == IF GetApiKey(c) # None THEN GetApiKey(c) ELSE c.ip

\* C26: under the Hash strategy two requests with the same client key (the
\* bearer token, else X-API-Key, else the request IP) and the same eligible
\* list are assigned the same worker, and that worker is the one at
\* hash(key) mod N of the eligible list.
C26_AsStated ==
    ppaStrategy = "hash" =>
        \A r \in RRDispatched :
            LET avail == ppaReq[r].available
                c == ppaReq[r].client[1]
            IN  /\ ppaReq[r].inst = avail[(Md5Mod6(StatedClientKey(c)) % Len(avail)) + 1]
                /\ \A q \in RRDispatched :
                        /\ ppaReq[q].available = avail
                        /\ StatedClientKey(ppaReq[q].client[1]) = StatedClientKey(c)
                        => ppaReq[q].inst = ppaReq[r].inst

----------------------------------------------------------------------------
(* Claims on the least-loaded and primary-first selections                 *)

\* the requests an instance of the in-process router has been locked for
SmTotalRequests(id) == Cardinality({q \in Reqs : smReq[q].orig = id})

\* C27: LeastLoaded selects an eligible worker with the minimum ratio
\* activeRequests / maxConcurrent, and among the workers tied on that ratio
\* the one with the lower totalRequests: no eligible worker has a smaller
\* ratio than the selected one, and none with the same ratio has served
\* fewer requests.
C27_AsStated ==
    [][\A r \in Reqs :
        /\ smStrategy = "least_loaded"
        /\ smReq[r].pc = "new"
        /\ smReq'[r].instance_id # None
        => LET av == GetAvailableInstances(smInst)
               id == smReq'[r].instance_id
           IN  \A j \in 1..Len(av) :
                /\ ~LoadLess(smInst, av[j], id)
                /\ ~LoadLess(smInst, id, av[j])
                        => SmTotalRequests(id) <= SmTotalRequests(av[j])]_vars

\* the instances LeastLoaded is said to select from the list av: those of
\* minimum ratio and, among them, of minimum count of requests
StatedLeastLoaded(av) ==
    {x \in {av[i] : i \in 1..Len(av)} :
        \A j \in 1..Len(av) :
            /\ ~LoadLess(smInst, av[j], x)
            /\ ~LoadLess(smInst, x, av[j])
                    => SmTotalRequests(x) <= SmTotalRequests(av[j])}

\* the worker whose id sorts first is Ready and under 80 % of its cap
PrimaryPreferred ==
    LET primary == ConfigOrder(smInst)[1]
    IN  /\ smInst[primary].status = "ready"
        /\ smInst[primary].active_requests * 10 < smInst[primary].max_concurrent_requests * 8

\* C28: PrimaryFirst selects the worker whose id sorts first while that
\* worker is Ready and under 80 % of its concurrency cap, and otherwise
\* selects what LeastLoaded would select.
C28_AsStated ==
    [][\A r \in Reqs :
        /\ smStrategy = "primary_first"
        /\ smReq[r].pc = "new"
        /\ smReq'[r].instance_id # None
        => IF PrimaryPreferred
           THEN smReq'[r].instance_id = ConfigOrder(smInst)[1]
           ELSE smReq'[r].instance_id \in StatedLeastLoaded(GetAvailableInstances(smInst))]_vars

----------------------------------------------------------------------------
(* Claims on the purity of the registry's resolutions                      *)

\* C29 as stated: ResolveModel(w, m) leaves the registry state as it found
\* it.
C29_AsStated ==
    [][regCall'.op = "get_fallback" /\ now' = now
        => model_status' = model_status /\ instance_statuses' = instance_statuses]_vars

\* C29: fallback determinism, with the lazy reset: ResolveModel(w, m) is a
\* function of the registry state, the static chain and the current time.
\* A call changes the registry in two ways only: it restores pairs of w
\* that were marked and whose cooldown has elapsed (flag true, no time,
\* error count kept), and it creates the empty entry of a worker the
\* registry did not know. A second call at the same time returns the same
\* model and leaves the registry as it found it.
C29_Resolve ==
    [][regCall'.op = "get_fallback" /\ now' = now
        => LET w == regCall'.w
               m == regCall'.m
           IN  /\ \A v \in InstanceIds \ {w} : model_status'[v] = model_status[v]
               /\ DOMAIN model_status'[w] = DOMAIN model_status[w]
               /\ \A x \in DOMAIN model_status[w] :
                    model_status'[w][x] # model_status[w][x]
                        => /\ ~model_status[w][x].available
                           /\ now - model_status[w][x].quota_exceeded_time[1] > COOLDOWN
                           /\ model_status'[w][x] =
                                [available |-> TRUE, quota_exceeded_time |-> <<>>,
                                 error_count |-> model_status[w][x].error_count]
               /\ instance_statuses' \in {instance_statuses, Append(instance_statuses, w)}
               /\ \E i \in 1..Len(instance_statuses') : instance_statuses'[i] = w
               /\ GetFallbackModel(model_status'[w], m, now)
                    = <<regCall'.result, model_status'[w]>>]_vars

\* a resolution has answered the requested model on a pair that carries a
\* quota event and is restored
C29_Witness ==
    /\ regCall.op = "get_fallback"
    /\ regCall.result = regCall.m
    /\ regCall.m \in DOMAIN model_status[regCall.w]
    /\ model_status[regCall.w][regCall.m].error_count > 0
    /\ model_status[regCall.w][regCall.m].available
    /\ now > COOLDOWN

\* C30: PickWorkerForModel(candidates, model) returns the first worker in
\* the given candidate order for which IsAvailable(worker, model) is true,
\* candidates the registry has never recorded anything about included, and
\* None only if no candidate is available.
C30_AsStated ==
    [][regCall'.op = "get_best" /\ now' = now
        => LET cands == regCall'.candidates
               ok == {i \in 1..Len(cands) :
                        IsModelAvailable(model_status[cands[i]], regCall'.m, now)[1]}
           IN  regCall'.result =
                    IF ok = {} THEN None
                    ELSE cands[CHOOSE i \in ok : \A j \in ok : i <= j]]_vars

----------------------------------------------------------------------------
(* api_utils/instance_manager.py: the error counts of the instances        *)

EmMaxPages == 2
EmIds == 1..EmMaxPages
EmModels == {M20Flash, M15Flash}

\* InstanceManager.max_error_count
max_error_count == 2

\* the errors followed for one instance
MaxErrors == 3

\* a new InstanceStatus (get_instance_status makes one for an id it does
\* not know, so that every id has one)
EmFresh == [is_disabled |-> FALSE, error_count |-> 0, disabled_since_model |-> None,
            needs_reinit |-> FALSE]

InitErr ==
    /\ RegInit
    /\ PPAIdle
    /\ SmIdle
    /\ FileIdle
    /\ EnhIdle
    /\ SupIdle
    /\ FleetIdle
    /\ LockIdle
    /\ emStatus = [id \in EmIds |-> EmFresh]
    /\ emServer \in [multi : BOOLEAN, pages : 0..EmMaxPages]
    /\ emCall = <<>>

xErr == <<regVars, beatVars, ppaVars, smVars, fileVars, enhVars, supVars, fleetVars, lockVars>>

\* report_generation_error(instance_id, req_id, current_model)
ReportGenerationError(id, model) ==
    LET n == emStatus[id].error_count + 1
    IN  /\ emStatus[id].error_count < MaxErrors
        /\ emStatus' = [emStatus EXCEPT ![id] =
                IF n = 1 /\ ~emStatus[id].needs_reinit
                THEN [@ EXCEPT !.error_count = n, !.needs_reinit = TRUE]
                ELSE IF n >= max_error_count
                THEN [@ EXCEPT !.error_count = n, !.is_disabled = TRUE,
                               !.disabled_since_model = model]
                ELSE [@ EXCEPT !.error_count = n]]
        /\ UNCHANGED <<xErr, emServer, emCall>>

\* on_model_change(new_model)
OnModelChange(new_model) ==
    /\ emStatus' = [id \in EmIds |->
            IF emStatus[id].is_disabled /\ emStatus[id].disabled_since_model # new_model
            THEN EmFresh ELSE emStatus[id]]
    /\ emStatus' # emStatus
    /\ UNCHANGED <<xErr, emServer, emCall>>

\* perform_page_reinit where the page comes up (a failed one changes only
\* last_reinit_attempt)
PerformPageReinit(id) ==
    /\ emStatus' = [emStatus EXCEPT ![id] = [@ EXCEPT !.needs_reinit = FALSE,
                                                      !.error_count = 0]]
    /\ emStatus' # emStatus
    /\ UNCHANGED <<xErr, emServer, emCall>>

\* reset_instance_status
ResetInstanceStatus(id) ==
    /\ emStatus' = [emStatus EXCEPT ![id] = EmFresh]
    /\ emStatus' # emStatus
    /\ UNCHANGED <<xErr, emServer, emCall>>

\* a filter that keeps the disabled instances
AllInstances(status, pages) == [i \in 1..pages |-> i]

\* the instances 1..pages that is_instance_available accepts (lines 58-62)
NotDisabled(status, pages) ==
    SelectSeq([i \in 1..pages |-> i], LAMBDA id : ~status[id].is_disabled)

\* get_available_instances
EmGetAvailableInstances(status, server) ==
    IF ~server.multi THEN <<1>>
    ELSE IF server.pages = 0 THEN <<1>>
    ELSE IF NotDisabled(status, server.pages) = <<>> THEN <<1>>
    ELSE NotDisabled(status, server.pages)

\* a call of get_available_instances, kept with the instances that are
\* disabled when it is made
CallGetAvailableInstances ==
    /\ emCall' = <<[disabled |-> {id \in EmIds : emStatus[id].is_disabled},
                    result |-> EmGetAvailableInstances(emStatus, emServer)]>>
    /\ emCall' # emCall
    /\ UNCHANGED <<xErr, emServer, emStatus>>

NextErr ==
    \/ \E id \in EmIds, model \in EmModels : ReportGenerationError(id, model)
    \/ \E model \in EmModels : OnModelChange(model)
    \/ \E id \in EmIds : PerformPageReinit(id)
    \/ \E id \in EmIds : ResetInstanceStatus(id)
    \/ CallGetAvailableInstances

SpecErr == InitErr /\ [][NextErr]_vars

----------------------------------------------------------------------------
(* config/model_fallback.py: its locks, taken by calls of several threads  *)

LkNumThreads == 3
LkThreads == 1..LkNumThreads
LkInstances == {"1", "2"}

\* ModelFallbackManager._lock and InstanceModelStatus._lock of each instance
ManagerLock == "manager"
LkLocks == {ManagerLock} \cup LkInstances

LkOps == {"mark_model_quota_exceeded", "get_fallback_model",
          "get_best_available_instance", "get_status_summary"}

\* no thread holds the lock
Free == 0

InitLock ==
    /\ RegInit
    /\ PPAIdle
    /\ SmIdle
    /\ FileIdle
    /\ EnhIdle
    /\ SupIdle
    /\ FleetIdle
    /\ ErrIdle
    /\ lkThread = [t \in LkThreads |-> <<>>]
    /\ lkOwner = [l \in LkLocks |-> Free]

xLock == <<beatVars, ppaVars, smVars, fileVars, enhVars, supVars, fleetVars, errVars>>

\* get_or_create_instance_status: "with self._lock" around the look-up
GetOrCreatePlan(i) == <<<<"acquire", ManagerLock>>, <<"create", i>>, <<"release", ManagerLock>>>>

\* a variant of a call that takes the manager lock while it holds it
Reentrant(op, i) ==
    <<<<"acquire", ManagerLock>>>> \o GetOrCreatePlan(i)
        \o <<<<"iterate", ManagerLock>>, <<"release", ManagerLock>>>>

\* "with self._lock" of an InstanceModelStatus method
WithInstanceLock(i) == <<<<"acquire", i>>, <<"release", i>>>>

\* the lock steps of one registry call, in program order.
\* get_fallback_model calls is_model_available for the requested model and
\* then for the models of its chain (here: one of them).
LockPlan(op, i) ==
    CASE op = "mark_model_quota_exceeded" -> GetOrCreatePlan(i) \o WithInstanceLock(i)
      [] op = "get_fallback_model" ->
            GetOrCreatePlan(i) \o WithInstanceLock(i) \o WithInstanceLock(i)
      [] op = "get_best_available_instance" ->
            <<<<"acquire", ManagerLock>>, <<"iterate", ManagerLock>>,
              <<"release", ManagerLock>>>>
      [] op = "get_status_summary" ->
            <<<<"acquire", ManagerLock>>, <<"iterate", ManagerLock>>,
              <<"release", ManagerLock>>>>

\* "for instance_id, instance_status in self.instance_statuses.items()":
\* the lock of each instance, taken and released in the order of the keys
RECURSIVE IterPlan(_)
IterPlan(keys) ==
    IF keys = <<>> THEN <<>> ELSE WithInstanceLock(Head(keys)) \o IterPlan(Tail(keys))

\* a thread enters a registry call
LkCall(t, op, i) ==
    /\ lkThread[t] = <<>>
    /\ lkThread' = [lkThread EXCEPT ![t] = LockPlan(op, i)]
    /\ UNCHANGED <<regVars, xLock, lkOwner>>

NextStep(t, kind) == lkThread[t] # <<>> /\ Head(lkThread[t])[1] = kind

\* Lock.acquire(): the thread goes on when the lock is free (the lock is
\* not reentrant: its holder waits like any other thread)
LkAcquire(t) ==
    /\ NextStep(t, "acquire")
    /\ lkOwner[Head(lkThread[t])[2]] = Free
    /\ lkOwner' = [lkOwner EXCEPT ![Head(lkThread[t])[2]] = t]
    /\ lkThread' = [lkThread EXCEPT ![t] = Tail(@)]
    /\ UNCHANGED <<regVars, xLock>>

\* Lock.release() at the end of the with block
LkRelease(t) ==
    /\ NextStep(t, "release")
    /\ lkOwner' = [lkOwner EXCEPT ![Head(lkThread[t])[2]] = Free]
    /\ lkThread' = [lkThread EXCEPT ![t] = Tail(@)]
    /\ UNCHANGED <<regVars, xLock>>

\* the body of get_or_create_instance_status
LkGetOrCreate(t) ==
    /\ NextStep(t, "create")
    /\ instance_statuses' = GetOrCreate(instance_statuses, Head(lkThread[t])[2])
    /\ lkThread' = [lkThread EXCEPT ![t] = Tail(@)]
    /\ UNCHANGED <<now, model_status, regCall, xLock, lkOwner>>

\* the loop over instance_statuses begins
LkIterate(t) ==
    /\ NextStep(t, "iterate")
    /\ lkThread' = [lkThread EXCEPT ![t] = IterPlan(instance_statuses) \o Tail(@)]
    /\ UNCHANGED <<regVars, xLock, lkOwner>>

NextLock ==
    \/ \E t \in LkThreads, op \in LkOps, i \in LkInstances : LkCall(t, op, i)
    \/ \E t \in LkThreads : LkAcquire(t)
    \/ \E t \in LkThreads : LkRelease(t)
    \/ \E t \in LkThreads : LkGetOrCreate(t)
    \/ \E t \in LkThreads : LkIterate(t)

SpecLock == InitLock /\ [][NextLock]_vars

----------------------------------------------------------------------------
(* Claims on the bounds of the queue and of the request history            *)

\* a maximum of the queue that the arriving requests can exceed by one
\* (asyncio.Queue() is built with no maxsize, which is no maximum at all)
StatedQueueMax == NumReqs - 1

\* C31: the request queue is bounded: its length never exceeds the
\* configured maximum, whatever the number of requests that arrive while no
\* worker is eligible.
C31_AsStated == Len(enhQueue) <= StatedQueueMax

\* the contexts request_history holds
RequestHistory == {r \in HistReqs : fReq[r].in_history}

\* the size complete_request lets the history reach when every request
\* is reported complete: one context above the threshold of the trim
StatedHistoryBound == HistoryMax + 1

\* C32: the request history is bounded: the number of stored request
\* contexts never exceeds a fixed bound, also for requests that are routed
\* and never reported complete.
C32_AsStated == Cardinality(RequestHistory) <= StatedHistoryBound

\* the requests chat_completions has admitted to the instance and that
\* have not ended
PPAInFlight(id) ==
    {r \in Reqs : ppaReq[r].inst = id /\ ppaReq[r].pc \in {"forwarding", "streaming"}}

\* C33: every admitted request decrements current_concurrent exactly once,
\* on every path (success, upstream error, a failure while the reply is built
\* after the non-stream decrement, a streaming generator never iterated), so
\* that current_concurrent of an instance equals its requests in flight.
C33_AsStated ==
    \A id \in PPAIds : ppaInst[id].current_concurrent = Cardinality(PPAInFlight(id))

\* active_requests of the instance once the request that holds it is released
ReleasedOnce(id) == IF smInst[id].active_requests > 0 THEN smInst[id].active_requests - 1
                    ELSE 0

----------------------------------------------------------------------------
(* Claims on the locks of the instances of the file-based router           *)

\* a step that calls complete_request for r
Completes(r) == fReq'[r].completed = fReq[r].completed + 1

\* a step of cleanup_expired_requests that deletes the context of r
CleansUp(r) ==
    /\ fReq[r].in_history
    /\ ~fReq'[r].in_history
    /\ \A q \in HistReqs : fReq'[q].completed = fReq[q].completed

\* another request holds the lock of the instance r was routed to
HeldByOther(r) ==
    \E q \in HistReqs \ {r} :
        /\ fReq[q].holding
        /\ fReq[q].instance_id = fReq[r].instance_id

\* C35: completion is idempotent: a completion of a request id that was
\* completed before, or its clean-up as expired after its completion, leaves
\* active_requests and the lock of an instance held by a different in-flight
\* request as they are.
C35_AsStated ==
    [][\A r \in HistReqs :
          (/\ fReq[r].completed >= 1
           /\ fReq[r].instance_id # None
           /\ HeldByOther(r)
           /\ Completes(r) \/ CleansUp(r))
          => /\ fInst'[fReq[r].instance_id].active_requests
                    = fInst[fReq[r].instance_id].active_requests
             /\ fInst'[fReq[r].instance_id].locked
                    = fInst[fReq[r].instance_id].locked]_vars

\* C36: a request that holds the lock of an instance keeps its context in
\* the history, so that its completion releases the lock: the trim of the
\* history never discards it.
C36_AsStated == \A r \in HistReqs : fReq[r].holding => fReq[r].in_history

\* C37: release_instance_lock returns an instance to READY only from BUSY:
\* a completion or a clean-up never makes READY an instance that is
\* STARTING, ERROR or STOPPED.
C37_AsStated ==
    [][\A id \in FileIds :
          (/\ fInst[id].status \in {"starting", "error", "stopped"}
           /\ fInst'[id].status = "ready")
          => \A r \in HistReqs : ~Completes(r) /\ ~CleansUp(r)]_vars

\* C38: no request holds the lock of an instance whose page and browser
\* stop_instance has closed: no request acquires the lock of an instance
\* that stop_instance has stopped, whatever the interleaving of the two.
C38_AsStated ==
    [][\A r \in HistReqs :
          fReq[r].pc # "routed" /\ fReq'[r].pc = "routed"
          => fInst'[fReq'[r].instance_id].running]_vars

----------------------------------------------------------------------------
(* Claim on the error-count instance manager                               *)

Listed(c, id) == \E i \in 1..Len(c.result) : c.result[i] = id

\* C39 as stated: an instance that is disabled is never in the list
\* get_available_instances returns.
C39_AsStated ==
    Len(emCall) = 1 => \A id \in emCall[1].disabled : ~Listed(emCall[1], id)

\* get_available_instances has nothing to choose from: single-instance
\* mode, no page, or every instance 1..pages disabled
NothingToChoose(c) ==
    \/ ~emServer.multi
    \/ emServer.pages = 0
    \/ \A j \in 1..emServer.pages : j \in c.disabled

ListedOnlyAsLastResort ==
    Len(emCall) = 1 =>
        \A id \in emCall[1].disabled :
            Listed(emCall[1], id) =>
                id = 1 /\ emCall[1].result = <<1>> /\ NothingToChoose(emCall[1])

ReEnabledByReset ==
    \A id \in EmIds :
        emStatus[id].is_disabled /\ ~emStatus'[id].is_disabled => emStatus'[id] = EmFresh

\* C39: an instance that has been disabled is not in the list returned by
\* get_available_instances, except instance 1 when the list has nothing to
\* choose from and is [1]; and it stays disabled until a model change or a
\* reset gives it a new status.
C39_Available == []ListedOnlyAsLastResort /\ [][ReEnabledByReset]_vars

C39_Witness ==
    /\ Len(emCall) = 1
    /\ emServer.multi
    /\ \E id \in emCall[1].disabled :
        /\ id <= emServer.pages
        /\ emStatus[id].error_count >= max_error_count
        /\ ~Listed(emCall[1], id)
        /\ Len(emCall[1].result) >= 1

----------------------------------------------------------------------------
(* Claim on the locks of the registry                                      *)

InCall(t) == lkThread[t] # <<>>

\* the lock the thread is about to acquire
Wants(t, l) == NextStep(t, "acquire") /\ Head(lkThread[t])[2] = l

Holds(t, l) == lkOwner[l] = t

Blocked(t) == \E l \in LkLocks : Wants(t, l) /\ lkOwner[l] # Free

\* some thread that is in a call can take its next step
SomeCallGoesOn == (\E t \in LkThreads : InCall(t)) => \E t \in LkThreads : InCall(t) /\ ~Blocked(t)

\* no thread asks for a lock it holds
NoReacquire == \A t \in LkThreads, l \in LkLocks : Wants(t, l) => ~Holds(t, l)

\* the manager lock before the instance locks, one instance lock at a time
SameOrder ==
    \A t \in LkThreads, i \in LkInstances :
        Holds(t, i) => \A l \in LkLocks : ~Wants(t, l)

\* C40: concurrent calls of mark_model_quota_exceeded, get_fallback_model,
\* get_best_available_instance and get_status_summary from different
\* threads never deadlock: the manager lock and the instance locks are
\* always taken in the same order, and no thread asks again for a
\* non-reentrant lock it holds.
C40_NoDeadlock == SomeCallGoesOn /\ NoReacquire /\ SameOrder

\* a thread holds the manager lock and waits, inside its loop, for the lock
\* of an instance that a second thread holds, while a third waits for the
\* manager lock
C40_Witness ==
    \E t, u, v \in LkThreads, i \in LkInstances :
        /\ Holds(t, ManagerLock)
        /\ Wants(t, i)
        /\ Holds(u, i)
        /\ u # t
        /\ Wants(v, ManagerLock)
        /\ v # t

====
